---------------------------- MODULE Spec2Model ----------------------------
(***************************************************************************)
(* A model of pdf-to-md-cli: convert_file (src/src/converter.rs) and the   *)
(* transformation stages under src/src/transformations/.                   *)
(*                                                                         *)
(* Numbers.  The program computes with f64.  Here every length, position   *)
(* and font size is an integer count of 1/2000 units (0.0005), so that     *)
(* every tolerance of the code (0.001, 0.01, 0.1, 0.5, ...) is a whole     *)
(* number of steps and values closer than a tolerance exist.  Products     *)
(* with a decimal factor (0.8 * font_size, 1.5 * distance) are compared    *)
(* by cross-multiplication, never rounded.                                 *)
(*                                                                         *)
(* Text.  A String is a sequence of one-character strings.  The operators  *)
(* named after functions of Rust's standard library (trim, contains,      *)
(* to_lowercase, split_whitespace, ...) are those functions on such        *)
(* sequences, for the ASCII range.                                         *)
(***************************************************************************)
EXTENDS Integers, Sequences, FiniteSets, TLC

VARIABLES
    pc,             \* position of convert_file / of the stage under study
    source,         \* the PDF as the extractor sees it
    num_threads,    \* rayon::current_num_threads()
    ranges,         \* Vec<(u16, u16)> handed to the extraction workers
    chunk_pages,    \* per range: the pages its worker has pushed so far
    next_idx,       \* per range: the worker's page_idx (its for-loop position)
    pages,          \* result.pages
    globals,        \* result.globals
    compacted,      \* positions of the pages CompactLines' workers have finished
    stages_run,     \* the transform calls made so far, in call order
    final_markdown, \* the String convert_file returns
    files,          \* run's Vec<PathBuf>, each file by what converting it does
    results,        \* per file: what process_single_file has returned, if it has
    reported,       \* the files run has logged an "Error:" line for
    exit_code       \* the process's exit status once it has ended

vars == <<pc, source, num_threads, ranges, chunk_pages, next_idx, pages,
          globals, compacted, stages_run, final_markdown,
          files, results, reported, exit_code>>

\* the state of processor::run
run_vars == <<files, results, reported, exit_code>>

\* the state of one call of convert_file
convert_vars == <<pc, source, num_threads, ranges, chunk_pages, next_idx, pages,
                  globals, compacted, stages_run, final_markdown>>

\* convert_file studied on its own: one file, run's collection not looked at
OneFile ==
    /\ files = <<>>
    /\ results = <<>>
    /\ reported = {}
    /\ exit_code = "running"

----------------------------------------------------------------------------
(* Numbers *)

Scale == 2 * 1000

U(n) == n * Scale

Abs(n) == IF n < 0 THEN -n ELSE n

Max(a, b) == IF a >= b THEN a ELSE b

Min(a, b) == IF a <= b THEN a ELSE b

\* variant: v cut down to a multiple of 0.01
Truncate2(v) == (v \div (Scale \div 100)) * (Scale \div 100)

\* format!("{:.2}", v).parse::<f64>(): v to the nearest 0.01, an exact tie
\* to the even hundredth (Rust's formatter rounds the exact value half-even).
Fmt2(v) ==
    LET step == Scale \div 100
        q == v \div step
        r == v % step
    IN  IF 2 * r < step THEN q * step
        ELSE IF 2 * r > step THEN (q + 1) * step
        ELSE IF q % 2 = 0 THEN q * step ELSE (q + 1) * step

----------------------------------------------------------------------------
(* Characters and strings *)

Digits == {"0", "1", "2", "3", "4", "5", "6", "7", "8", "9"}

WhitespaceChars == {" ", "\t", "\n"}

ToLowerMap ==
    [A |-> "a", B |-> "b", C |-> "c", D |-> "d", E |-> "e", F |-> "f",
     G |-> "g", H |-> "h", I |-> "i", J |-> "j", K |-> "k", L |-> "l",
     M |-> "m", N |-> "n", O |-> "o", P |-> "p", Q |-> "q", R |-> "r",
     S |-> "s", T |-> "t", U |-> "u", V |-> "v", W |-> "w", X |-> "x",
     Y |-> "y", Z |-> "z"]

UpperLetters == DOMAIN ToLowerMap

LowerLetters == {ToLowerMap[c] : c \in UpperLetters}

is_digit(c) == c \in Digits

is_whitespace(c) == c \in WhitespaceChars

is_alphabetic(c) == c \in UpperLetters \cup LowerLetters

is_uppercase(c) == c \in UpperLetters

char_to_lowercase(c) == IF c \in UpperLetters THEN ToLowerMap[c] ELSE c

to_lowercase(s) == [i \in 1..Len(s) |-> char_to_lowercase(s[i])]

RECURSIVE trim_start(_)
trim_start(s) ==
    IF s # <<>> /\ is_whitespace(s[1]) THEN trim_start(Tail(s)) ELSE s

RECURSIVE trim_end(_)
trim_end(s) ==
    IF s # <<>> /\ is_whitespace(s[Len(s)])
    THEN trim_end(SubSeq(s, 1, Len(s) - 1))
    ELSE s

trim(s) == trim_end(trim_start(s))

starts_with(s, p) == Len(p) <= Len(s) /\ SubSeq(s, 1, Len(p)) = p

ends_with(s, p) ==
    Len(p) <= Len(s) /\ SubSeq(s, Len(s) - Len(p) + 1, Len(s)) = p

contains(s, p) ==
    \E i \in 1..(Len(s) - Len(p) + 1) : SubSeq(s, i, i + Len(p) - 1) = p

alpha_count(s) == Len(SelectSeq(s, is_alphabetic))

RECURSIVE Flatten(_)
Flatten(ss) == IF ss = <<>> THEN <<>> ELSE ss[1] \o Flatten(Tail(ss))

RECURSIVE SumSeq(_)
SumSeq(ns) == IF ns = <<>> THEN 0 ELSE ns[1] + SumSeq(Tail(ns))

Range(s) == {s[i] : i \in 1..Len(s)}

\* a Vec filled once: the sequence with every element computed
AsVec(s) == s \o <<>>

----------------------------------------------------------------------------
(* models.rs *)

NoFormat == "None"

TextItem(text, x, y, width, height, font, font_size) ==
    [text |-> text, x |-> x, y |-> y, width |-> width, height |-> height,
     font |-> font, font_size |-> font_size, format |-> NoFormat]

\* ItemType: the variant ("TextItem", "LineItem" or "Markdown") and its value
Item(kind, v) == [kind |-> kind, v |-> v]

Page(index, items) == [index |-> index, items |-> items]

\* BlockType: a tag, and for TocItem(level) the level (0 for the other tags)
BlockType(tag) == [tag |-> tag, level |-> 0]

Paragraph == BlockType("Paragraph")

Code == BlockType("Code")

TocItem(level) == [tag |-> "TocItem", level |-> level]

HeadingTags == {"H1", "H2", "H3", "H4", "H5", "H6"}

\* GlobalStats::default()
DefaultGlobals ==
    [most_used_height |-> 0, most_used_distance |-> 0, most_used_font |-> <<>>,
     max_height |-> 0, font_to_format |-> <<>>]

----------------------------------------------------------------------------
(* String literals of the sources, as character sequences *)

\* the substrings calculate_global_stats looks for in a lowercased font name
FontWords ==
    [math |-> <<"m", "a", "t", "h">>,
     symbol |-> <<"s", "y", "m", "b", "o", "l">>,
     italic |-> <<"i", "t", "a", "l", "i", "c">>,
     oblique |-> <<"o", "b", "l", "i", "q", "u", "e">>,
     bold |-> <<"b", "o", "l", "d">>,
     bd |-> <<"-", "b", "d">>,
     ital |-> <<"-", "i", "t", "a", "l">>,
     it |-> <<"-", "i", "t">>]

----------------------------------------------------------------------------
(* transformations/stats.rs *)

\* the TextItems of a page, in item order
PageTextItems(page) ==
    LET sel == SelectSeq(page.items, LAMBDA it : it.kind = "TextItem")
    IN  [i \in 1..Len(sel) |-> sel[i].v]

\* stats.rs:31-42: the fragment takes part in the vote
Votes(t) ==
    LET lower_font == to_lowercase(t.font)
    IN  /\ ~(contains(lower_font, FontWords.math) \/ contains(lower_font, FontWords.symbol))
        /\ alpha_count(trim(t.text)) >= 3

\* stats.rs:46-53: letters, a tenth of them for a styled font
VoteWeight(t) ==
    LET lower_font == to_lowercase(t.font)
        n == alpha_count(trim(t.text))
    IN  IF \/ contains(lower_font, FontWords.italic)
           \/ contains(lower_font, FontWords.oblique)
           \/ contains(lower_font, FontWords.bold)
        THEN n \div 10
        ELSE n

\* the voting fragments of the document, in document order
Voters(ps) ==
    Flatten([p \in 1..Len(ps) |-> SelectSeq(PageTextItems(ps[p]), Votes)])

\* a HashMap<String, usize> built with *entry(key).or_insert(0) += weight
\* keys[i] is the key of voters[i]
VoteCounts(voters, keys) ==
    [k \in Range(keys) |->
        SumSeq([i \in 1..Len(voters) |->
                   IF keys[i] = k THEN VoteWeight(voters[i]) ELSE 0])]

HeightKey(t) == Fmt2(t.font_size)

FontKey(t) == t.font

\* variant: the keys with the lowest count
get_least_used_key(counts) ==
    {k \in DOMAIN counts : \A j \in DOMAIN counts : counts[k] <= counts[j]}

\* get_most_used_key: max_by_key over a HashMap's iterator.  The iteration
\* order of a HashMap is arbitrary, so among keys that tie for the highest
\* count any one may be returned.
get_most_used_key(counts) ==
    {k \in DOMAIN counts : \A j \in DOMAIN counts : counts[j] <= counts[k]}

\* variant: the last voter with the largest font size
RECURSIVE MaxHeightScanLast(_, _)
MaxHeightScanLast(voters, best) ==
    IF voters = <<>> THEN best
    ELSE MaxHeightScanLast(Tail(voters),
            IF voters[1].font_size >= best.max_height
            THEN [max_height |-> voters[1].font_size,
                  max_height_font |-> voters[1].font]
            ELSE best)

\* stats.rs:60-63: the first voter with the strictly largest font size
RECURSIVE MaxHeightScan(_, _)
MaxHeightScan(voters, best) ==
    IF voters = <<>> THEN best
    ELSE MaxHeightScan(Tail(voters),
            IF voters[1].font_size > best.max_height
            THEN [max_height |-> voters[1].font_size,
                  max_height_font |-> voters[1].font]
            ELSE best)

HeightTolerance == Scale \div 100

JitterThreshold == U(5)

DefaultDistance == U(12)

\* stats.rs:74-99: the distance keys one page contributes; last is <<>> for
\* None and <<t>> for Some(t)
RECURSIVE PageDistanceKeys(_, _, _)
PageDistanceKeys(items, last, most_used_height) ==
    IF items = <<>> THEN <<>>
    ELSE LET t == items[1] IN
         IF /\ Abs(t.font_size - most_used_height) < HeightTolerance
            /\ alpha_count(t.text) >= 3
         THEN (IF /\ last # <<>>
                  /\ Abs(last[1].y - t.y) > JitterThreshold
                  /\ last[1].y - t.y > 0
               THEN <<Fmt2(last[1].y - t.y)>>
               ELSE <<>>)
              \o PageDistanceKeys(Tail(items), <<t>>, most_used_height)
         ELSE PageDistanceKeys(Tail(items),
                  IF trim(t.text) # <<>> THEN <<>> ELSE last,
                  most_used_height)

DistanceCounts(ps, most_used_height) ==
    LET keys == Flatten([p \in 1..Len(ps) |->
                    PageDistanceKeys(PageTextItems(ps[p]), <<>>, most_used_height)])
    IN  [k \in Range(keys) |-> Cardinality({i \in 1..Len(keys) : keys[i] = k})]

\* variant: the dominant font is classified by its name like any other
FontFormatByNameOnly(font_name, most_used_font, max_height_font) ==
    LET lower_name == to_lowercase(font_name)
        is_bold == contains(lower_name, FontWords.bold) \/ contains(lower_name, FontWords.bd)
        is_italic == \/ contains(lower_name, FontWords.oblique)
                     \/ contains(lower_name, FontWords.italic)
                     \/ contains(lower_name, FontWords.ital)
                     \/ contains(lower_name, FontWords.it)
    IN  IF is_bold /\ is_italic THEN "BoldItalic"
        ELSE IF is_bold \/ font_name = max_height_font THEN "Bold"
        ELSE IF is_italic THEN "Italic"
        ELSE NoFormat

\* stats.rs:104-130
FontFormat(font_name, most_used_font, max_height_font) ==
    LET lower_name == to_lowercase(font_name)
        is_bold == contains(lower_name, FontWords.bold) \/ contains(lower_name, FontWords.bd)
        is_italic == \/ contains(lower_name, FontWords.oblique)
                     \/ contains(lower_name, FontWords.italic)
                     \/ contains(lower_name, FontWords.ital)
                     \/ contains(lower_name, FontWords.it)
        is_max_height_font == font_name = max_height_font
    IN  IF font_name = most_used_font THEN NoFormat
        ELSE IF is_bold /\ is_italic THEN "BoldItalic"
        ELSE IF is_bold \/ is_max_height_font THEN "Bold"
        ELSE IF is_italic THEN "Italic"
        ELSE NoFormat

FontToFormat(font_counts, most_used_font, max_height_font) ==
    [f \in {g \in DOMAIN font_counts :
               FontFormat(g, most_used_font, max_height_font) # NoFormat} |->
        FontFormat(f, most_used_font, max_height_font)]

\* calculate_global_stats: every GlobalStats a run can return
calculate_global_stats(ps) ==
    LET voters == Voters(ps)
        height_counts ==
            VoteCounts(voters, [i \in DOMAIN voters |-> HeightKey(voters[i])])
        font_counts ==
            VoteCounts(voters, [i \in DOMAIN voters |-> FontKey(voters[i])])
        top == MaxHeightScan(voters, [max_height |-> 0, max_height_font |-> <<>>])
        heights == IF DOMAIN height_counts = {} THEN {0}
                   ELSE get_most_used_key(height_counts)
        fonts == IF DOMAIN font_counts = {} THEN {<<>>}
                 ELSE get_most_used_key(font_counts)
        distances(h) == LET distance_counts == DistanceCounts(ps, h)
                        IN  IF DOMAIN distance_counts = {} THEN {DefaultDistance}
                            ELSE get_most_used_key(distance_counts)
    IN  UNION {UNION {{[most_used_height |-> h,
                        most_used_distance |-> d,
                        most_used_font |-> f,
                        max_height |-> top.max_height,
                        font_to_format |->
                            FontToFormat(font_counts, f, top.max_height_font)]
                       : d \in distances(h)}
                      : f \in fonts}
               : h \in heights}

----------------------------------------------------------------------------
(* transformations/remove_repetitive_elements.rs *)

\* get_item_y: Some(y) for a TextItem or a LineItem
HasY(item) == item.kind \in {"TextItem", "LineItem"}

\* get_item_text
get_item_text(item) ==
    IF item.kind = "TextItem" THEN item.v.text
    ELSE IF item.kind = "LineItem"
         THEN Flatten([i \in 1..Len(item.v.items) |-> item.v.items[i].text])
         ELSE <<>>

YTolerance == Scale \div 1000

ItemYs(items) == {items[i].v.y : i \in {j \in 1..Len(items) : HasY(items[j])}}

\* the scan "if y < min_y { min_y = y }" started at f64::MAX
MinY(items) == CHOOSE y \in ItemYs(items) : \A z \in ItemYs(items) : y <= z

MaxY(items) == CHOOSE y \in ItemYs(items) : \A z \in ItemYs(items) : y >= z

is_min(item, items) == Abs(item.v.y - MinY(items)) < YTolerance

is_max(item, items) == Abs(item.v.y - MaxY(items)) < YTolerance

\* the value hash_string returns for a blank string
ZeroHash == <<>>

\* DefaultHasher over the normalized string.  SipHash with its fixed keys is
\* a function of the string alone; it is taken to be injective and never 0,
\* and its value is written as the hashed string behind a "#".
DefaultHasher(normalized) == <<"#">> \o normalized

\* variant: a normalization that keeps the digits
NormalizedKeepingDigits(s) ==
    to_lowercase(SelectSeq(s, LAMBDA c : ~is_whitespace(c)))

\* hash_string, the normalization dropping digits and whitespace
Normalized(s) ==
    to_lowercase(SelectSeq(s, LAMBDA c : ~is_digit(c) /\ ~is_whitespace(c)))

hash_string(s) ==
    IF trim(s) = <<>> THEN ZeroHash ELSE DefaultHasher(Normalized(s))

\* calculate_page_hashes: <<min_hash, max_hash>>
calculate_page_hashes(items) ==
    IF ItemYs(items) = {} THEN <<ZeroHash, ZeroHash>>
    ELSE LET band(In(_, _)) ==
                 Flatten([i \in 1..Len(items) |->
                     IF HasY(items[i]) /\ In(items[i], items)
                     THEN get_item_text(items[i]) ELSE <<>>])
         IN  <<hash_string(band(is_min)), hash_string(band(is_max))>>

\* variant: a threshold of half the pages
ThresholdHalf(total_pages) == Max((total_pages + 1) \div 2, 2)

\* remove_repetitive_elements.rs:45-46
Threshold(total_pages) == Max((2 * total_pages + 2) \div 3, 3)

\* min_freq / max_freq over min_line_hashes / max_line_hashes: line_hashes[p]
\* is <<min_hash, max_hash>> of page p, k is 1 for min and 2 for max; the
\* hash 0 is not counted
Freq(line_hashes, k, h) ==
    IF h = ZeroHash THEN 0
    ELSE Cardinality({p \in DOMAIN line_hashes : line_hashes[p][k] = h})

remove_min(line_hashes, p) ==
    Freq(line_hashes, 1, line_hashes[p][1]) >= Threshold(Len(line_hashes))

remove_max(line_hashes, p) ==
    Freq(line_hashes, 2, line_hashes[p][2]) >= Threshold(Len(line_hashes))

\* variant: only the fragments exactly at the minimum y go with the min band
KeepExactY(items, item, rm_min, rm_max) ==
    \/ ~HasY(item)
    \/ /\ ~(item.v.y = MinY(items) /\ rm_min)
       /\ ~(is_max(item, items) /\ rm_max)

\* remove_repetitive_elements.rs:84-103: the item is kept
Keep(items, item, rm_min, rm_max) ==
    \/ ~HasY(item)
    \/ /\ ~(is_min(item, items) /\ rm_min)
       /\ ~(is_max(item, items) /\ rm_max)

\* RemoveRepetitiveElements::transform, as the pages it leaves
RemoveRepetitiveElements(ps) ==
    IF Len(ps) < 3 THEN ps
    ELSE LET line_hashes ==
                 AsVec([p \in 1..Len(ps) |-> calculate_page_hashes(ps[p].items)])
         IN  [p \in 1..Len(ps) |->
                 LET rm_min == remove_min(line_hashes, p)
                     rm_max == remove_max(line_hashes, p)
                 IN  IF rm_min \/ rm_max
                     THEN [ps[p] EXCEPT !.items =
                              SelectSeq(ps[p].items,
                                        LAMBDA item : Keep(ps[p].items, item, rm_min, rm_max))]
                     ELSE ps[p]]

----------------------------------------------------------------------------
(* transformations/compact_lines.rs *)

\* variant: the line is left in the order its fragments came in
InsertLast(sorted, t) == Append(sorted, t)

\* sort_line_by_x: Vec::sort_by is stable, items of equal x keep their order
RECURSIVE InsertByX(_, _)
InsertByX(sorted, t) ==
    IF sorted = <<>> THEN <<t>>
    ELSE IF sorted[Len(sorted)].x <= t.x THEN Append(sorted, t)
    ELSE Append(InsertByX(SubSeq(sorted, 1, Len(sorted) - 1), t),
                sorted[Len(sorted)])

RECURSIVE sort_line_by_x(_)
sort_line_by_x(line) ==
    IF line = <<>> THEN <<>>
    ELSE InsertByX(sort_line_by_x(SubSeq(line, 1, Len(line) - 1)), line[Len(line)])

\* variant: the tolerance is the larger of 0.8 font sizes and the pitch
ExceedsLargerTolerance(first, item, most_used_distance) ==
    /\ 10 * Abs(first.y - item.y) > 8 * first.font_size
    /\ Abs(first.y - item.y) > most_used_distance

\* compact_lines.rs:71-77: the incoming item is too far from the line's
\* first item to belong to the line
ExceedsTolerance(first, item, most_used_distance) ==
    IF first.font_size > 0
    THEN 10 * Abs(first.y - item.y) > 8 * first.font_size
    ELSE Abs(first.y - item.y) > most_used_distance

\* group_items_by_line: the loop, with lines and current_line as accumulators
RECURSIVE GroupLoop(_, _, _, _)
GroupLoop(items, lines, current_line, most_used_distance) ==
    IF items = <<>>
    THEN IF current_line # <<>>
         THEN Append(lines, sort_line_by_x(current_line))
         ELSE lines
    ELSE IF /\ current_line # <<>>
            /\ ExceedsTolerance(current_line[1], items[1], most_used_distance)
         THEN GroupLoop(Tail(items), Append(lines, sort_line_by_x(current_line)),
                        <<items[1]>>, most_used_distance)
         ELSE GroupLoop(Tail(items), lines, Append(current_line, items[1]),
                        most_used_distance)

group_items_by_line(items, most_used_distance) ==
    GroupLoop(items, <<>>, <<>>, most_used_distance)

\* variant: fragments up to 10 units apart are glued
GlueThresholdTen == U(10)

GlueThreshold == U(5)

SpaceThreshold(font_size) == Max(2 * font_size, U(30))

ClosingPunctuation == {".", ",", ":", ";", "?", "!", ")", "]", "}"}

OpeningPunctuation == {"(", "[", "{"}

\* variant: the running item grows but does not take the item's text
GlueWithoutText(current_item, item, separator) ==
    [current_item EXCEPT
        !.width = (item.x + item.width) - current_item.x,
        !.height = Max(current_item.height, item.height)]

\* compact_lines.rs:115-131: the running item with item glued to it
Glue(current_item, item, separator) ==
    [current_item EXCEPT
        !.text = current_item.text \o separator \o item.text,
        !.width = (item.x + item.width) - current_item.x,
        !.height = Max(current_item.height, item.height)]

\* compact_lines.rs:123-128
Separator(current_item, item) ==
    LET is_next_punctuation ==
            item.text # <<>> /\ item.text[1] \in ClosingPunctuation
        is_current_open_punctuation ==
            /\ current_item.text # <<>>
            /\ current_item.text[Len(current_item.text)] \in OpeningPunctuation
    IN  IF ~is_next_punctuation /\ ~is_current_open_punctuation
        THEN <<" ">> ELSE <<>>

\* create_line_item's merge loop (compact_lines.rs:106-137)
RECURSIVE MergeLoop(_, _, _)
MergeLoop(items, merged_text_items, current_item) ==
    IF items = <<>> THEN Append(merged_text_items, current_item)
    ELSE LET item == items[1]
             gap == item.x - (current_item.x + current_item.width)
             same_font == item.font = current_item.font
         IN  IF gap <= GlueThreshold /\ same_font
             THEN MergeLoop(Tail(items), merged_text_items,
                            Glue(current_item, item, <<>>))
             ELSE IF gap <= SpaceThreshold(current_item.font_size) /\ same_font
             THEN MergeLoop(Tail(items), merged_text_items,
                            Glue(current_item, item, Separator(current_item, item)))
             ELSE MergeLoop(Tail(items), Append(merged_text_items, current_item),
                            item)

MergeTextItems(items) == MergeLoop(Tail(items), <<>>, items[1])

\* compact_lines.rs:139-164: the Markdown markup of the item's font
ApplyFormat(item, font_to_format) ==
    IF item.font \notin DOMAIN font_to_format THEN item
    ELSE LET inner_text == trim(item.text)
             leading_space == IF starts_with(item.text, <<" ">>) THEN <<" ">> ELSE <<>>
             trailing_space == IF ends_with(item.text, <<" ">>) THEN <<" ">> ELSE <<>>
             format == font_to_format[item.font]
             formatted_inner ==
                 IF format = "Bold" THEN <<"*", "*">> \o inner_text \o <<"*", "*">>
                 ELSE IF format = "Italic" THEN <<"_">> \o inner_text \o <<"_">>
                 ELSE IF format = "BoldItalic"
                      THEN <<"*", "*", "_">> \o inner_text \o <<"_", "*", "*">>
                      ELSE inner_text
         IN  IF inner_text = <<>> THEN item
             ELSE [item EXCEPT !.text = leading_space \o formatted_inner
                                         \o trailing_space]

MaxOfSeq(ns) == IF ns = <<>> THEN 0 ELSE
    LET m == CHOOSE a \in Range(ns) : \A b \in Range(ns) : a >= b IN Max(0, m)

\* create_line_item for a non-empty group
create_line_item(items, gs) ==
    LET merged == MergeTextItems(items)
        merged_text_items ==
            [i \in 1..Len(merged) |-> ApplyFormat(merged[i], gs.font_to_format)]
        first == merged_text_items[1]
        last == merged_text_items[Len(merged_text_items)]
    IN  [items |-> merged_text_items,
         x |-> first.x,
         y |-> first.y,
         width |-> (last.x + last.width) - first.x,
         height |-> MaxOfSeq([i \in 1..Len(merged_text_items) |->
                                 merged_text_items[i].height]),
         block_type |-> Paragraph]

\* the closure CompactLines::transform runs on one page
CompactPage(page, gs) ==
    LET text_items == PageTextItems(page)
        grouped_lines == group_items_by_line(text_items, gs.most_used_distance)
    IN  IF text_items = <<>> THEN page
        ELSE [page EXCEPT !.items =
                 [i \in 1..Len(grouped_lines) |->
                     Item("LineItem", create_line_item(grouped_lines[i], gs))]]

----------------------------------------------------------------------------
(* transformations/detect_code_blocks.rs *)

CodeKeywords ==
    {<<"i", "m", "p", "o", "r", "t", " ">>,
     <<"f", "r", "o", "m", " ">>,
     <<"d", "e", "f", " ">>,
     <<"c", "l", "a", "s", "s", " ">>,
     <<"t", "r", "y", ":">>,
     <<"e", "x", "c", "e", "p", "t">>,
     <<"r", "e", "t", "u", "r", "n", " ">>,
     <<"p", "r", "i", "n", "t", "(">>,
     <<"i", "f", " ">>,
     <<"f", "o", "r", " ">>,
     <<"w", "h", "i", "l", "e", " ">>,
     <<"w", "i", "t", "h", " ">>}

CodeSymbols ==
    {<<"{">>,
     <<"}">>,
     <<";">>,
     <<"=", ">">>,
     <<" ", "=", " ">>,
     <<" ", "(">>,
     <<" ", "[">>,
     <<"]", " ">>,
     <<")", ":">>,
     <<" ", "#", " ">>}

IndicatorKeywords ==
    {<<"i", "m", "p", "o", "r", "t", " ">>,
     <<"f", "r", "o", "m", " ">>,
     <<"d", "e", "f", " ">>,
     <<"a", "s", "y", "n", "c", " ", "d", "e", "f", " ">>,
     <<"c", "l", "a", "s", "s", " ">>,
     <<"t", "r", "y", ":">>,
     <<"e", "x", "c", "e", "p", "t">>,
     <<"r", "e", "t", "u", "r", "n", " ">>,
     <<"p", "r", "i", "n", "t", "(">>,
     <<"@", "a", "p", "p", ".">>,
     <<"a", "w", "a", "i", "t", " ">>,
     <<"a", "s", "y", "n", "c", "i", "o", ".">>,
     <<"i", "f", " ", "_", "_", "n", "a", "m", "e", "_", "_">>}

IndicatorSymbols ==
    {<<"{">>,
     <<"}">>,
     <<";">>,
     <<"=", ">">>,
     <<" ", "=", " ">>,
     <<")", ":">>}

Str_Preface == <<"P", "r", "e", "f", "a", "c", "e">>

\* the texts of a Line's items, concatenated
LineText(line) == Flatten([i \in 1..Len(line.items) |-> line.items[i].text])

l_has_explicit_code_indicators(text, lower) ==
    \/ \E k \in IndicatorKeywords : contains(lower, k)
    \/ starts_with(lower, <<"@">>)
    \/ \E k \in IndicatorSymbols : contains(text, k)

\* variant: only the word Preface makes a header
IsHeaderByTextOnly(line, gs) == contains(LineText(line), Str_Preface)

\* detect_code_blocks.rs:52 and :177
IsHeightHeader(line, gs) ==
    \/ line.height > gs.most_used_height + U(1)
    \/ contains(LineText(line), Str_Preface)

IndentThreshold(items) ==
    LET xs == {items[i].v.x : i \in {j \in 1..Len(items) : items[j].kind = "LineItem"}}
        min_x == IF xs = {} THEN 0 ELSE CHOOSE x \in xs : \A z \in xs : x <= z
    IN  min_x + U(2)

\* detect_code_blocks.rs:44-99
looks_like_code(line, indent_threshold, gs) ==
    LET text == LineText(line)
        lower == to_lowercase(text)
        has_code_keywords == \E k \in CodeKeywords : contains(lower, k)
        has_code_symbols == \E k \in CodeSymbols : contains(text, k)
        is_indented == line.x > indent_threshold
        is_plain == \A i \in 1..Len(line.items) : line.items[i].format = NoFormat
        has_markdown_bold ==
            /\ starts_with(trim(text), <<"*", "*">>)
            /\ ends_with(trim(text), <<"*", "*">>)
    IN  /\ ~IsHeightHeader(line, gs)
        /\ ~has_markdown_bold
        /\ \/ /\ is_indented
              /\ \/ has_code_keywords
                 \/ has_code_symbols
                 \/ (is_plain /\ text # <<>>)
           \/ l_has_explicit_code_indicators(text, lower)

\* a variant: a finished block is marked whatever its length
BlockMarksAnyLength(items, current_block) == Range(current_block)

\* detect_code_blocks.rs:105-126 and :133-151: what a finished block adds
\* to lines_to_mark_as_code
BlockMarks(items, current_block) ==
    IF current_block = <<>> THEN {}
    ELSE IF Len(current_block) = 1
    THEN LET l_text == LineText(items[current_block[1]].v)
         IN  IF l_has_explicit_code_indicators(l_text, to_lowercase(l_text))
             THEN {current_block[1]} ELSE {}
    ELSE Range(current_block)

\* detect_code_blocks.rs:42-151: lines_to_mark_as_code
RECURSIVE CandidateScan(_, _, _, _, _)
CandidateScan(items, idx, current_block, indent_threshold, gs) ==
    IF idx > Len(items) THEN BlockMarks(items, current_block)
    ELSE IF items[idx].kind # "LineItem"
    THEN CandidateScan(items, idx + 1, current_block, indent_threshold, gs)
    ELSE IF looks_like_code(items[idx].v, indent_threshold, gs)
    THEN CandidateScan(items, idx + 1, Append(current_block, idx),
                       indent_threshold, gs)
    ELSE BlockMarks(items, current_block)
         \cup CandidateScan(items, idx + 1, <<>>, indent_threshold, gs)

MarkCode(items, marks) ==
    [i \in 1..Len(items) |->
        IF i \in marks /\ items[i].kind = "LineItem"
        THEN Item("LineItem", [items[i].v EXCEPT !.block_type = Code])
        ELSE items[i]]

\* detect_code_blocks.rs:176-186
is_italic_line(line, gs) ==
    LET text == LineText(line) IN
    /\ ~IsHeightHeader(line, gs)
    /\ \/ \A i \in 1..Len(line.items) :
              line.items[i].format \in {"Italic", "BoldItalic"}
       \/ (starts_with(trim(text), <<"_">>) /\ ends_with(trim(text), <<"_">>))
       \/ (starts_with(trim(text), <<"*">>) /\ ends_with(trim(text), <<"*">>))

\* detect_code_blocks.rs:165-200: the indices in italic_groups
RECURSIVE ItalicScan(_, _, _, _)
ItalicScan(items, idx, current_italic_group, gs) ==
    LET closed == IF Len(current_italic_group) > 1
                  THEN Range(current_italic_group) ELSE {}
    IN  IF idx > Len(items) THEN closed
        ELSE IF items[idx].kind # "LineItem" \/ items[idx].v.block_type = Code
        THEN ItalicScan(items, idx + 1, current_italic_group, gs)
        ELSE IF is_italic_line(items[idx].v, gs)
        THEN ItalicScan(items, idx + 1, Append(current_italic_group, idx), gs)
        ELSE closed \cup ItalicScan(items, idx + 1, <<>>, gs)

IsCodeItem(item) == item.kind = "LineItem" /\ item.v.block_type = Code

Spaces(n) == [i \in 1..n |-> " "]

\* the maximal run of Code items around position idx
CodeRun(items, idx) ==
    {j \in 1..Len(items) :
        \A k \in Min(idx, j)..Max(idx, j) : IsCodeItem(items[k])}

\* normalize_indentation, for the line at idx of a run of Code lines
NormalizedLine(items, idx) ==
    LET line == items[idx].v
        xs == {items[j].v.x : j \in CodeRun(items, idx)}
        min_x == CHOOSE x \in xs : \A z \in xs : x <= z
        delta == line.x - min_x
        spaces == (2 * delta + U(4)) \div U(8)      \* (delta / 4.0).round()
    IN  IF delta > U(2) /\ spaces > 0 /\ line.items # <<>>
        THEN [line EXCEPT !.items[1].text = Spaces(spaces) \o @]
        ELSE line

normalize_indentation(items) ==
    [i \in 1..Len(items) |->
        IF IsCodeItem(items[i]) THEN Item("LineItem", NormalizedLine(items, i))
        ELSE items[i]]

\* the body of DetectCodeBlocks::transform's loop for one page
DetectCodeBlocksPage(page, gs) ==
    LET marked == MarkCode(page.items,
                      CandidateScan(page.items, 1, <<>>,
                                    IndentThreshold(page.items), gs))
        italic == MarkCode(marked, ItalicScan(marked, 1, <<>>, gs))
    IN  [page EXCEPT !.items = normalize_indentation(italic)]

DetectCodeBlocks(ps, gs) ==
    [p \in 1..Len(ps) |-> DetectCodeBlocksPage(ps[p], gs)]

----------------------------------------------------------------------------
(* transformations/detect_toc.rs *)

Str_table_of_contents == <<"t", "a", "b", "l", "e", " ", "o", "f", " ", "c", "o", "n", "t", "e", "n", "t", "s">>

RECURSIVE trim_end_matches(_, _)
trim_end_matches(s, chars) ==
    IF s # <<>> /\ s[Len(s)] \in chars
    THEN trim_end_matches(SubSeq(s, 1, Len(s) - 1), chars)
    ELSE s

\* the longest suffix of s made of digits (detect_toc.rs:185-192)
RECURSIVE SuffixDigits(_)
SuffixDigits(s) ==
    IF s # <<>> /\ is_digit(s[Len(s)])
    THEN Append(SuffixDigits(SubSeq(s, 1, Len(s) - 1)), s[Len(s)])
    ELSE <<>>

\* str::rfind: the 0-based start of the last occurrence of p in s
rfind(s, p) ==
    LET at == {i \in 0..(Len(s) - Len(p)) : SubSeq(s, i + 1, i + Len(p)) = p}
    IN  CHOOSE i \in at : \A j \in at : j <= i

MarkupChars == {"*", "_", " "}

IsDots(w) == \A i \in 1..Len(w.text) : w.text[i] = "."

\* detect_toc.rs:166-216: the line's words with the page number taken off
\* the last one
WordsWithoutNumber(line) ==
    LET words == SelectSeq(line.items, LAMBDA w : ~IsDots(w))
        original_text == words[Len(words)].text
        trimmed_text == trim_end_matches(original_text, MarkupChars)
        digits == SuffixDigits(trimmed_text)
        pos == rfind(original_text, digits)
        prefix == SubSeq(original_text, 1, pos)
        suffix == SubSeq(original_text, pos + Len(digits) + 1, Len(original_text))
        clean_prefix == trim_end_matches(prefix, {".", " "})
        stripped == IF words = <<>> \/ digits = <<>> THEN words
                    ELSE [words EXCEPT ![Len(words)].text = clean_prefix \o suffix]
    IN  SelectSeq(stripped, LAMBDA w : w.text # <<>>)

line_ends_with_digit(line) ==
    LET words == SelectSeq(line.items, LAMBDA w : ~IsDots(w))
        trimmed_text == trim_end_matches(words[Len(words)].text, MarkupChars)
    IN  /\ words # <<>>
        /\ trimmed_text # <<>>
        /\ is_digit(trimmed_text[Len(trimmed_text)])

\* the per-page variables of the first loop of DetectTOC::transform; an
\* Option<usize> is 0 for None (positions count from 1), the other Options
\* are <<>> for None and <<v>> for Some(v)
TocScanStart ==
    [line_items_with_digits |-> 0, page_toc_links |-> <<>>, unknown_lines |-> {},
     last_words_without_number |-> <<>>, last_line_idx |-> 0, last_y |-> <<>>,
     headline_item_idx |-> 0, processed_items |-> 0]

\* detect_toc.rs:255-324: a line ending in a digit
TocDigitLine(st, line, line_idx, gs) ==
    LET own == WordsWithoutNumber(line)
        pending == st.last_words_without_number # <<>>
        gap == Abs((IF st.last_y # <<>> THEN st.last_y[1] ELSE line.y) - line.y)
        too_far == 10 * gap > 15 * gs.most_used_distance
        words == IF pending /\ ~too_far
                 THEN st.last_words_without_number[1] \o own
                 ELSE own
        link_line_item ==
            IF words = <<>> THEN [line EXCEPT !.items = words]
            ELSE [line EXCEPT !.items = words, !.x = words[1].x, !.y = words[1].y]
    IN  [st EXCEPT
            !.last_words_without_number = <<>>,
            !.unknown_lines =
                IF pending /\ too_far /\ st.last_line_idx # 0
                THEN @ \cup {st.last_line_idx} ELSE @,
            !.page_toc_links =
                Append(@, [line_item |-> link_line_item, level |-> 0,
                           original_line_index |-> line_idx]),
            !.line_items_with_digits = @ + 1]

\* variant: a line not ending in a digit leaves the line remembered before
\* it unmarked
TocPlainLineNoUnknown(st, line, line_idx) ==
    IF st.headline_item_idx = 0
    THEN [st EXCEPT !.headline_item_idx = line_idx]
    ELSE [st EXCEPT
            !.last_words_without_number = <<WordsWithoutNumber(line)>>,
            !.last_line_idx = line_idx,
            !.last_y = <<line.y>>]

\* detect_toc.rs:325-337: a line not ending in a digit
TocPlainLine(st, line, line_idx) ==
    IF st.headline_item_idx = 0
    THEN [st EXCEPT !.headline_item_idx = line_idx]
    ELSE [st EXCEPT
            !.unknown_lines =
                IF st.last_line_idx # 0 THEN @ \cup {st.last_line_idx} ELSE @,
            !.last_words_without_number = <<WordsWithoutNumber(line)>>,
            !.last_line_idx = line_idx,
            !.last_y = <<line.y>>]

RECURSIVE TocScan(_, _, _, _)
TocScan(items, line_idx, st, gs) ==
    IF line_idx > Len(items) THEN st
    ELSE IF items[line_idx].kind # "LineItem"
    THEN TocScan(items, line_idx + 1, st, gs)
    ELSE LET line == items[line_idx].v
             counted == [st EXCEPT !.processed_items = @ + 1]
         IN  TocScan(items, line_idx + 1,
                     IF line_ends_with_digit(line)
                     THEN TocDigitLine(counted, line, line_idx, gs)
                     ELSE TocPlainLine(counted, line, line_idx),
                     gs)

\* variant: a page with exactly 75% of numbered lines qualifies
IsTocPageFrom75(st) ==
    /\ st.processed_items > 0
    /\ st.line_items_with_digits * 100 >= 75 * st.processed_items

\* detect_toc.rs:341-342
IsTocPage(st) ==
    /\ st.processed_items > 0
    /\ st.line_items_with_digits * 100 > 75 * st.processed_items

XClusterTolerance == U(6)

RECURSIVE SortedSeq(_)
SortedSeq(set) ==
    IF set = {} THEN <<>>
    ELSE LET m == CHOOSE a \in set : \A b \in set : a <= b
         IN  <<m>> \o SortedSeq(set \ {m})

\* calculate_unique_x: the first x of every cluster, ascending
RECURSIVE UniqueXScan(_, _)
UniqueXScan(toc_links, unique_x) ==
    IF toc_links = <<>> THEN unique_x
    ELSE LET x == toc_links[1].line_item.x
         IN  UniqueXScan(Tail(toc_links),
                 IF \E ux \in unique_x : Abs(ux - x) < XClusterTolerance
                 THEN unique_x ELSE unique_x \cup {x})

calculate_unique_x(toc_links) == SortedSeq(UniqueXScan(toc_links, {}))

\* calculate_unique_fonts: the first items' fonts in order of appearance
RECURSIVE calculate_unique_fonts(_)
calculate_unique_fonts(toc_links) ==
    IF toc_links = <<>> THEN <<>>
    ELSE LET rest == calculate_unique_fonts(SubSeq(toc_links, 1, Len(toc_links) - 1))
             link == toc_links[Len(toc_links)]
         IN  IF link.line_item.items = <<>> THEN rest
             ELSE IF link.line_item.items[1].font \in Range(rest) THEN rest
             ELSE Append(rest, link.line_item.items[1].font)

\* level_by_x_diff: the first cluster at the least distance
XLevel(unique_x, x) ==
    CHOOSE i \in 1..Len(unique_x) :
        /\ \A j \in 1..Len(unique_x) : Abs(unique_x[i] - x) <= Abs(unique_x[j] - x)
        /\ \A j \in 1..(i - 1) : Abs(unique_x[j] - x) > Abs(unique_x[i] - x)

level_by_x_diff(toc_links) ==
    LET unique_x == calculate_unique_x(toc_links)
    IN  [i \in 1..Len(toc_links) |->
            [toc_links[i] EXCEPT
                !.level = XLevel(unique_x, toc_links[i].line_item.x) - 1]]

level_by_font(toc_links, unique_fonts) ==
    [i \in 1..Len(toc_links) |->
        LET items == toc_links[i].line_item.items IN
        IF items # <<>> /\ items[1].font \in Range(unique_fonts)
        THEN [toc_links[i] EXCEPT
                !.level = (CHOOSE k \in 1..Len(unique_fonts) :
                              unique_fonts[k] = items[1].font) - 1]
        ELSE toc_links[i]]

level_to_zero(toc_links) ==
    [i \in 1..Len(toc_links) |-> [toc_links[i] EXCEPT !.level = 0]]

\* LinkLeveler::new()
NewLeveler == [level_by_method |-> "None", unique_fonts |-> <<>>]

\* level_page_items: the leveler it leaves
LevelerAfter(leveler, toc_links) ==
    IF leveler.level_by_method # "None" THEN leveler
    ELSE IF Len(calculate_unique_x(toc_links)) > 1
    THEN [leveler EXCEPT !.level_by_method = "XDiff"]
    ELSE IF Len(calculate_unique_fonts(toc_links)) > 1
    THEN [level_by_method |-> "Font",
          unique_fonts |-> calculate_unique_fonts(toc_links)]
    ELSE [leveler EXCEPT !.level_by_method = "Zero"]

\* level_page_items: the links it leaves
level_page_items(leveler, toc_links) ==
    LET method == LevelerAfter(leveler, toc_links).level_by_method
    IN  IF method = "XDiff" THEN level_by_x_diff(toc_links)
        ELSE IF method = "Font"
        THEN level_by_font(toc_links, LevelerAfter(leveler, toc_links).unique_fonts)
        ELSE level_to_zero(toc_links)

MaxPagesToEvaluate == 20

\* detect_toc.rs:137-356: the first loop.  found is the sequence of
\* [page_idx, toc_links, unknown_lines] of the TOC pages, in page order.
RECURSIVE TocCollect(_, _, _, _, _)
TocCollect(ps, page_idx, leveler, found, gs) ==
    IF page_idx > Min(MaxPagesToEvaluate, Len(ps)) THEN found
    ELSE LET st == TocScan(ps[page_idx].items, 1, TocScanStart, gs)
         IN  IF IsTocPage(st)
             THEN TocCollect(ps, page_idx + 1,
                      LevelerAfter(leveler, st.page_toc_links),
                      Append(found,
                          [page_idx |-> page_idx,
                           toc_links |-> level_page_items(leveler, st.page_toc_links),
                           unknown_lines |-> st.unknown_lines]),
                      gs)
             ELSE TocCollect(ps, page_idx + 1, leveler, found, gs)

\* str::split('|').next(): the text before the first '|'
RECURSIVE BeforeBar(_)
BeforeBar(text) ==
    IF text = <<>> \/ text[1] = "|" THEN <<>>
    ELSE <<text[1]>> \o BeforeBar(Tail(text))

\* check_repetitive (detect_toc.rs:385-411), and its copy at :492-514
check_repetitive(text, first_page_headers) ==
    LET text_norm == trim(BeforeBar(text))
    IN  \/ text \in first_page_headers
        \/ \E h \in first_page_headers : Len(h) > 3 /\ starts_with(text, h)
        \/ text_norm \in first_page_headers
        \/ \E h \in first_page_headers : Len(h) > 3 /\ starts_with(text_norm, h)

LinkText(link) == LineText(link.line_item)

\* variant: no unknown line is a duplicate of a TOC entry
is_duplicate_never(clean_line_text, toc_links) == FALSE

\* detect_toc.rs:434-442
is_duplicate(clean_line_text, toc_links) ==
    \E k \in 1..Len(toc_links) : contains(LinkText(toc_links[k]), clean_line_text)

UnknownLineText(item) == IF item.kind = "LineItem" THEN LineText(item.v) ELSE <<>>

\* detect_toc.rs:367-469: valid_unknown_lines; seq_idx counts from 0
valid_unknown_lines(items, entry, seq_idx, first_page_headers) ==
    {idx \in entry.unknown_lines :
        LET clean_line_text == trim(UnknownLineText(items[idx]))
        IN  \/ clean_line_text = <<>>
            \/ /\ ~(seq_idx > 0 /\ check_repetitive(clean_line_text, first_page_headers))
               /\ ~(seq_idx > 0 /\ contains(to_lowercase(clean_line_text),
                                            Str_table_of_contents))
               /\ ~is_duplicate(clean_line_text, entry.toc_links)}

\* detect_toc.rs:446-461: what the first TOC page adds to first_page_headers
LearnedHeaders(items, entry) ==
    LET learned == {trim(UnknownLineText(items[idx])) :
                       idx \in {i \in entry.unknown_lines :
                           /\ trim(UnknownLineText(items[i])) # <<>>
                           /\ ~is_duplicate(trim(UnknownLineText(items[i])),
                                            entry.toc_links)}}
    IN  learned \cup {trim(BeforeBar(t)) : t \in learned}

\* detect_toc.rs:478-530: headline_idx, 0 for None
headline_idx(items, seq_idx, first_page_headers) ==
    LET is_headline(i) ==
            /\ items[i].kind = "LineItem"
            /\ ~(seq_idx > 0 /\ check_repetitive(trim(LineText(items[i].v)),
                                                 first_page_headers))
            /\ ~(seq_idx > 0 /\ contains(to_lowercase(LineText(items[i].v)),
                                         Str_table_of_contents))
            /\ ~line_ends_with_digit(items[i].v)
        hits == {i \in 1..Len(items) : is_headline(i)}
    IN  IF hits = {} THEN 0 ELSE CHOOSE i \in hits : \A j \in hits : i <= j

\* detect_toc.rs:532-551: the item list of a TOC page
TocPageItems(items, entry, seq_idx, first_page_headers) ==
    LET valid == valid_unknown_lines(items, entry, seq_idx, first_page_headers)
        headline == headline_idx(items, seq_idx, first_page_headers)
        link_at(i) == {k \in 1..Len(entry.toc_links) :
                          entry.toc_links[k].original_line_index = i}
        kept(i) == link_at(i) # {} \/ i \in valid \/ i = headline
        new_item(i) ==
            IF link_at(i) # {}
            THEN LET link == entry.toc_links[CHOOSE k \in link_at(i) : TRUE]
                 IN  Item("LineItem", [link.line_item EXCEPT
                                  !.block_type = TocItem(link.level)])
            ELSE items[i]
        order == SelectSeq([i \in 1..Len(items) |-> i], kept)
    IN  [n \in 1..Len(order) |-> new_item(order[n])]

\* detect_toc.rs:358-553: the second loop
RECURSIVE TocApply(_, _, _, _)
TocApply(ps, found, seq_idx, first_page_headers) ==
    IF seq_idx >= Len(found) THEN ps
    ELSE LET entry == found[seq_idx + 1]
             items == ps[entry.page_idx].items
             headers == IF seq_idx = 0
                        THEN first_page_headers \cup LearnedHeaders(items, entry)
                        ELSE first_page_headers
         IN  TocApply([ps EXCEPT ![entry.page_idx].items =
                          TocPageItems(items, entry, seq_idx, headers)],
                      found, seq_idx + 1, headers)

DetectTOC(ps, gs) == TocApply(ps, TocCollect(ps, 1, NewLeveler, <<>>, gs), 0, {})

----------------------------------------------------------------------------
(* transformations/detect_headers.rs *)

\* line.items.iter().map(|i| i.font_size).fold(0.0, f64::max)
LineFontSize(line) == MaxOfSeq([i \in 1..Len(line.items) |-> line.items[i].font_size])

PageLines(page) ==
    LET sel == SelectSeq(page.items, LAMBDA it : it.kind = "LineItem")
    IN  [i \in 1..Len(sel) |-> sel[i].v]

\* detect_headers.rs:18-31
title_page_indices(ps, gs) ==
    {ps[p].index : p \in {q \in 1..Len(ps) :
        \E i \in 1..Len(PageLines(ps[q])) :
            2 * Abs(LineFontSize(PageLines(ps[q])[i]) - gs.max_height) < U(1)}}

\* detect_headers.rs:49-52
is_list_item(text) ==
    LET t == trim(text)
    IN  \/ starts_with(t, <<"-">>)
        \/ starts_with(t, <<"*">>)
        \/ (t # <<>> /\ is_digit(t[1]) /\ contains(t, <<".">>))

\* h > min_header_height, with min_header_height = most_used_height * 1.01
AboveMinHeader(h, gs) == 100 * h > 101 * gs.most_used_height

AtLeastMinHeader(h, gs) == 100 * h >= 101 * gs.most_used_height

\* variant: sizes less than 5 apart count as one height
HeightMatchToleranceFive == U(5)

HeightMatchTolerance == U(1)

\* detect_headers.rs:38-72: distinct_heights before the sort
RECURSIVE DistinctHeightsScan(_, _, _)
DistinctHeightsScan(lines, distinct_heights, gs) ==
    IF lines = <<>> THEN distinct_heights
    ELSE LET h == LineFontSize(lines[1])
         IN  DistinctHeightsScan(Tail(lines),
                 IF /\ AboveMinHeader(h, gs)
                    /\ ~is_list_item(LineText(lines[1]))
                    /\ ~\E k \in 1..Len(distinct_heights) :
                            Abs(distinct_heights[k] - h) < HeightMatchTolerance
                 THEN Append(distinct_heights, h)
                 ELSE distinct_heights,
                 gs)

\* detect_headers.rs:73: sorted descending
RECURSIVE SortedDescending(_)
SortedDescending(set) ==
    IF set = {} THEN <<>>
    ELSE LET m == CHOOSE a \in set : \A b \in set : a >= b
         IN  <<m>> \o SortedDescending(set \ {m})

distinct_heights(ps, gs) ==
    SortedDescending(Range(DistinctHeightsScan(
        Flatten([p \in 1..Len(ps) |-> PageLines(ps[p])]), <<>>, gs)))

\* variant: every level above 6 is H6
HeightBlockTypeCapped(line, is_title_page, heights, gs) ==
    LET h == LineFontSize(line)
        hits == {k \in 1..Len(heights) : Abs(heights[k] - h) < HeightMatchTolerance}
        pos == CHOOSE k \in hits : \A j \in hits : k <= j
        level == pos - 1 + 2
    IN  IF is_title_page /\ Abs(h - gs.max_height) < U(1) THEN BlockType("H1")
        ELSE IF is_title_page /\ 4 * h >= 3 * gs.most_used_height + gs.max_height
        THEN BlockType("H2")
        ELSE IF AtLeastMinHeader(h, gs) /\ hits # {}
        THEN BlockType(CASE level = 2 -> "H2" [] level = 3 -> "H3"
                         [] level = 4 -> "H4" [] level = 5 -> "H5"
                         [] OTHER -> "H6")
        ELSE line.block_type

\* detect_headers.rs:99-132: the BlockType step 3 gives a Paragraph line
HeightBlockType(line, is_title_page, heights, gs) ==
    LET h == LineFontSize(line)
        hits == {k \in 1..Len(heights) : Abs(heights[k] - h) < HeightMatchTolerance}
        pos == CHOOSE k \in hits : \A j \in hits : k <= j
        level == pos - 1 + 2
    IN  IF is_title_page /\ Abs(h - gs.max_height) < U(1) THEN BlockType("H1")
        ELSE IF is_title_page /\ 4 * h >= 3 * gs.most_used_height + gs.max_height
        THEN BlockType("H2")
        ELSE IF AtLeastMinHeader(h, gs) /\ hits # {} /\ level <= 6
        THEN BlockType(CASE level = 2 -> "H2" [] level = 3 -> "H3"
                         [] level = 4 -> "H4" [] level = 5 -> "H5"
                         [] OTHER -> "H6")
        ELSE line.block_type

\* detect_headers.rs:216-226: no line right above within 1.5 distances
IsolatedTop(line, line_ys, gs) ==
    LET at == {k \in 1..Len(line_ys) : 10 * Abs(line_ys[k] - line.y) < U(1)}
        line_pos == IF at = {} THEN 1 ELSE CHOOSE k \in at : \A j \in at : k <= j
    IN  ~(/\ line_pos > 1
          /\ 10 * Abs(line_ys[line_pos - 1] - line.y) < 15 * gs.most_used_distance)

\* detect_headers.rs:259-263
IsolatedBottom(line, line_ys, gs) ==
    LET at == {k \in 1..Len(line_ys) : 10 * Abs(line_ys[k] - line.y) < U(1)}
        line_pos == IF at = {} THEN 1 ELSE CHOOSE k \in at : \A j \in at : k <= j
    IN  ~(/\ line_pos < Len(line_ys)
          /\ 10 * Abs(line.y - line_ys[line_pos + 1]) < 15 * gs.most_used_distance)

\* detect_headers.rs:167-180: the "**" taken off the first and the last item
StripBoldMarkers(line) ==
    LET n == Len(line.items)
        first_done ==
            IF n > 0 /\ starts_with(line.items[1].text, <<"*", "*">>)
            THEN [line.items EXCEPT ![1].text = SubSeq(@, 3, Len(@))]
            ELSE line.items
        last_done ==
            IF n > 0 /\ ends_with(first_done[n].text, <<"*", "*">>)
            THEN [first_done EXCEPT ![n].text = SubSeq(@, 1, Len(@) - 2)]
            ELSE first_done
    IN  [line EXCEPT !.items = last_done]

\* detect_headers.rs:152-269: step 4 on one line
SmallHeader(line, line_ys, gs) ==
    LET text == LineText(line)
        is_bold_wrapped == /\ starts_with(trim(text), <<"*", "*">>)
                           /\ ends_with(trim(text), <<"*", "*">>)
        stripped == StripBoldMarkers(line)
        is_all_bold == \A i \in 1..Len(line.items) :
                           line.items[i].format \in {"Bold", "BoldItalic"}
        is_all_caps ==
            /\ alpha_count(text) > 0
            /\ \A i \in 1..Len(text) : ~is_alphabetic(text[i]) \/ is_uppercase(text[i])
        font_differs == line.items # <<>> /\ line.items[1].font # gs.most_used_font
    IN  IF line.block_type # Paragraph THEN line
        ELSE IF is_bold_wrapped /\ Len(text) < 150
        THEN IF trim(LineText(stripped)) = <<>> THEN stripped
             ELSE [stripped EXCEPT !.block_type =
                      IF Abs(LineFontSize(stripped) - gs.max_height) < U(1)
                      THEN BlockType("H1") ELSE BlockType("H2")]
        ELSE IF is_all_bold /\ Len(text) < 100 /\ IsolatedTop(line, line_ys, gs)
        THEN [line EXCEPT !.block_type = BlockType("H2")]
        ELSE IF /\ is_all_caps
                /\ IsolatedTop(line, line_ys, gs) /\ IsolatedBottom(line, line_ys, gs)
                /\ font_differs
                /\ Len(text) < 100
        THEN [line EXCEPT !.block_type = BlockType("H6")]
        ELSE line

DetectHeadersPage(page, titles, heights, gs) ==
    LET by_height ==
            [i \in 1..Len(page.items) |->
                IF page.items[i].kind = "LineItem"
                   /\ page.items[i].v.block_type = Paragraph
                THEN Item("LineItem", [page.items[i].v EXCEPT !.block_type =
                        HeightBlockType(page.items[i].v, page.index \in titles,
                                        heights, gs)])
                ELSE page.items[i]]
        line_ys == [i \in 1..Len(PageLines(page)) |-> PageLines(page)[i].y]
    IN  [page EXCEPT !.items =
            [i \in 1..Len(by_height) |->
                IF by_height[i].kind = "LineItem"
                THEN Item("LineItem", SmallHeader(by_height[i].v, line_ys, gs))
                ELSE by_height[i]]]

DetectHeaders(ps, gs) ==
    [p \in 1..Len(ps) |->
        DetectHeadersPage(ps[p], title_page_indices(ps, gs),
                          distinct_heights(ps, gs), gs)]

----------------------------------------------------------------------------
(* transformations/to_markdown.rs *)

\* str::split_whitespace: the maximal runs of non-whitespace characters
RECURSIVE SplitLoop(_, _, _)
SplitLoop(s, words, word) ==
    IF s = <<>> THEN IF word = <<>> THEN words ELSE Append(words, word)
    ELSE IF is_whitespace(s[1])
    THEN SplitLoop(Tail(s), IF word = <<>> THEN words ELSE Append(words, word), <<>>)
    ELSE SplitLoop(Tail(s), words, Append(word, s[1]))

split_whitespace(s) == SplitLoop(s, <<>>, <<>>)

\* [&str]::join(sep)
RECURSIVE join(_, _)
join(parts, sep) ==
    IF parts = <<>> THEN <<>>
    ELSE IF Len(parts) = 1 THEN parts[1]
    ELSE parts[1] \o sep \o join(Tail(parts), sep)

\* str::replace(pat, ""): the non-overlapping matches, left to right
RECURSIVE remove_all(_, _)
remove_all(s, pat) ==
    IF s = <<>> THEN <<>>
    ELSE IF starts_with(s, pat) THEN remove_all(SubSeq(s, Len(pat) + 1, Len(s)), pat)
    ELSE <<s[1]>> \o remove_all(Tail(s), pat)

RECURSIVE trim_start_matches(_, _)
trim_start_matches(s, chars) ==
    IF s # <<>> /\ s[1] \in chars THEN trim_start_matches(Tail(s), chars) ELSE s

trim_matches(s, chars) == trim_end_matches(trim_start_matches(s, chars), chars)

\* the grave accent U+0060, which a TLA+ string cannot hold
Backtick == "grave"

Fence == <<Backtick, Backtick, Backtick, "\n">>

FenceClose == <<Backtick, Backtick, Backtick, "\n", "\n">>

IsHeading(line) == line.block_type.tag \in HeadingTags

\* variant: a Code line whose text is wrapped in ** is no fenced code
IsFencedCodeUnlessBoldMarkup(item) ==
    /\ item.kind = "LineItem"
    /\ item.v.block_type = Code
    /\ ~\A i \in 1..Len(item.v.items) :
            item.v.items[i].format \in {"Bold", "BoldItalic"}
    /\ ~(/\ starts_with(trim(LineText(item.v)), <<"*", "*">>)
          /\ ends_with(trim(LineText(item.v)), <<"*", "*">>))

\* to_markdown.rs:37-48
IsFencedCode(item) ==
    /\ item.kind = "LineItem"
    /\ item.v.block_type = Code
    /\ ~\A i \in 1..Len(item.v.items) :
            item.v.items[i].format \in {"Bold", "BoldItalic"}

\* to_markdown.rs:91-99
RenderText(line) ==
    IF line.block_type.tag \in {"TocItem", "Code"}
    THEN join([i \in 1..Len(line.items) |-> line.items[i].text], <<" ">>)
    ELSE join(Flatten([i \in 1..Len(line.items) |->
                          split_whitespace(line.items[i].text)]), <<" ">>)

StripMarkup(text) == remove_all(remove_all(text, <<"*", "*">>), <<"_">>)

Hashes(tag) ==
    CASE tag = "H1" -> <<"#">>
      [] tag = "H2" -> <<"#", "#">>
      [] tag = "H3" -> <<"#", "#", "#">>
      [] tag = "H4" -> <<"#", "#", "#", "#">>
      [] tag = "H5" -> <<"#", "#", "#", "#", "#">>
      [] tag = "H6" -> <<"#", "#", "#", "#", "#", "#">>

\* "   ".repeat(level)
Indent(level) == [i \in 1..(3 * level) |-> " "]

\* to_markdown.rs:137-155
RenderTocItem(text, level) ==
    LET normalized == join(split_whitespace(trim(StripMarkup(text))), <<" ">>)
        words == split_whitespace(normalized)
        starts_with_number ==
            /\ words # <<>>
            /\ \A i \in 1..Len(words[1]) : is_digit(words[1][i]) \/ words[1][i] = "."
            /\ contains(words[1], <<".">>)
    IN  IF starts_with_number THEN Indent(level) \o normalized \o <<"\n">>
        ELSE Indent(level) \o <<"-", " ">> \o normalized \o <<"\n">>

\* to_markdown.rs:156-171
RenderCode(text) ==
    LET trimmed == trim_matches(text, {"*", "_"})
        clean_text == IF Len(trimmed) >= 2 /\ trimmed[1] = "_" /\ trimmed[Len(trimmed)] = "_"
                      THEN SubSeq(trimmed, 2, Len(trimmed) - 1) ELSE trimmed
    IN  <<"\t">> \o clean_text \o <<"\n">>

\* to_markdown.rs:111-174
RenderLine(line) ==
    LET text == RenderText(line)
        tag == line.block_type.tag
    IN  IF tag \in HeadingTags
        THEN Hashes(tag) \o <<" ">> \o StripMarkup(text) \o <<"\n", "\n">>
        ELSE IF tag = "ListItem" THEN <<"-", " ">> \o text \o <<"\n">>
        ELSE IF tag = "TocItem" THEN RenderTocItem(text, line.block_type.level)
        ELSE IF tag = "Code" THEN RenderCode(text)
        ELSE text \o <<"\n">>

\* to_markdown.rs:61-72: a blank line before a heading
WithBlankLine(markdown) ==
    IF ends_with(markdown, <<"\n", "\n">>) THEN markdown
    ELSE IF ends_with(markdown, <<"\n">>) THEN markdown \o <<"\n">>
    ELSE markdown \o <<"\n", "\n">>

\* the loop variables of ToMarkdown::transform for one page; last_y is -1.0
LoopStart ==
    [markdown |-> <<>>, in_code_block |-> FALSE, last_y |-> -U(1),
     last_was_header |-> FALSE]

\* to_markdown.rs:33-183: one iteration
RenderItem(st, item, gs) ==
    LET is_code == IsFencedCode(item)
        gap_break ==
            /\ item.kind = "LineItem"
            /\ st.last_y > 0 /\ ~st.last_was_header
            /\ 10 * Abs(st.last_y - item.v.y) > 12 * gs.most_used_distance
        after_gap == IF gap_break THEN st.markdown \o <<"\n">> ELSE st.markdown
        after_top == IF item.kind = "LineItem" /\ st.last_y > 0 /\ IsHeading(item.v)
                     THEN WithBlankLine(after_gap) ELSE after_gap
        after_fence ==
            IF is_code THEN IF ~st.in_code_block THEN after_top \o Fence ELSE after_top
            ELSE IF st.in_code_block THEN after_top \o FenceClose ELSE after_top
    IN  [markdown |->
            after_fence \o (IF item.kind = "LineItem" THEN RenderLine(item.v)
                            ELSE IF item.kind = "TextItem" THEN item.v.text \o <<"\n">>
                            ELSE <<>>),
         in_code_block |-> is_code,
         last_y |-> IF item.kind = "LineItem" THEN item.v.y ELSE st.last_y,
         last_was_header |->
            IF item.kind = "LineItem" THEN IsHeading(item.v)
            ELSE IF item.kind = "TextItem" THEN FALSE
            ELSE st.last_was_header]

RECURSIVE RenderLoop(_, _, _)
RenderLoop(items, st, gs) ==
    IF items = <<>> THEN st
    ELSE RenderLoop(Tail(items), RenderItem(st, items[1], gs), gs)

\* variant: a fence open at the end of the page is left open
PageMarkdownUnclosed(page, gs) == RenderLoop(page.items, LoopStart, gs).markdown

\* the Markdown of one page (to_markdown.rs:26-189)
PageMarkdown(page, gs) ==
    LET st == RenderLoop(page.items, LoopStart, gs)
    IN  IF st.in_code_block THEN st.markdown \o FenceClose ELSE st.markdown

\* variant: a renderer that leaves a page without items as it is
ToMarkdownSkippingEmptyPages(ps, gs) ==
    [p \in 1..Len(ps) |->
        IF ps[p].items = <<>> THEN ps[p]
        ELSE [ps[p] EXCEPT !.items = <<Item("Markdown", PageMarkdown(ps[p], gs))>>]]

ToMarkdown(ps, gs) ==
    [p \in 1..Len(ps) |->
        [ps[p] EXCEPT !.items = <<Item("Markdown", PageMarkdown(ps[p], gs))>>]]

----------------------------------------------------------------------------
(* converter.rs: convert_file *)

\* the page count document.pages().len() returns; a source with too many
\* pages to list gives the count in its field len
total_pages ==
    IF "len" \in DOMAIN source THEN source.len ELSE Len(source.pages)

\* converter.rs:50
ChunkSize(total, threads) == (total + threads - 1) \div threads

\* variant: ranges that share their boundary page
RangeEndInclusive(start, chunk_size, total) ==
    Min(start + chunk_size + 1, total)

\* converter.rs:56: start + chunk_size as u16 in 16 bits, then the min
RangeEnd(start, chunk_size, total) ==
    Min((start + (chunk_size % 65536)) % 65536, total)

\* converter.rs:53-59, for chunk_size > 0: (0..total).step_by(chunk_size)
Ranges(total, chunk_size) ==
    [k \in 1..((total + chunk_size - 1) \div chunk_size) |->
        <<(k - 1) * chunk_size, RangeEnd((k - 1) * chunk_size, chunk_size, total)>>]

\* extract_text_items: the text objects of a page whose text is not blank
extract_text_items(src_page) ==
    LET kept == SelectSeq(src_page.objects, LAMBDA t : trim(t.text) # <<>>)
    IN  [i \in 1..Len(kept) |-> Item("TextItem", kept[i])]

\* converter.rs:117: Vec::sort_by_key is stable
RECURSIVE sort_by_index(_)
sort_by_index(ps) ==
    IF ps = <<>> THEN <<>>
    ELSE LET rest == sort_by_index(SubSeq(ps, 1, Len(ps) - 1))
             last == ps[Len(ps)]
             before == SelectSeq(rest, LAMBDA q : q.index <= last.index)
             after == SelectSeq(rest, LAMBDA q : q.index > last.index)
         IN  before \o <<last>> \o after

\* the characters after which convert_file wants a paragraph break; the
\* right double and single quotation marks are written by name
SentenceEnd == {".", "?", "!", "\"", "rdquo", "rsquo"}

\* converter.rs:198-228: what goes between the previous page and the next
PageJoint(prev) ==
    LET trimmed_prev == trim_end(prev)
    IN  IF trimmed_prev = <<>> THEN <<"\n">>
        ELSE IF trimmed_prev[Len(trimmed_prev)] \in SentenceEnd
        THEN IF ends_with(prev, <<"\n", "\n">>) THEN <<>>
             ELSE IF ends_with(prev, <<"\n">>) THEN <<"\n">>
             ELSE <<"\n", "\n">>
        ELSE IF ends_with(prev, <<"\n">>) THEN <<>> ELSE <<"\n">>

\* converter.rs:180-193: the first Markdown item of every page that has one
page_markdowns(ps) ==
    LET firsts == [p \in 1..Len(ps) |->
                      SelectSeq(ps[p].items, LAMBDA it : it.kind = "Markdown")]
        have == SelectSeq(firsts, LAMBDA f : f # <<>>)
    IN  [i \in 1..Len(have) |-> have[i][1].v]

\* converter.rs:195-230
CombinePages(mds) ==
    Flatten([i \in 1..Len(mds) |->
        IF i > 1 THEN PageJoint(mds[i - 1]) \o mds[i] ELSE mds[i]])

PipelineStages ==
    <<"CalculateGlobalStats", "RemoveRepetitiveElements", "CompactLines",
      "DetectCodeBlocks", "DetectTOC", "DetectHeaders", "ToMarkdown">>

\* converter.rs:19-42: Pdfium binds and the document loads, or the ? returns
LoadDocument ==
    /\ pc = "load"
    /\ pc' = IF source.opens THEN "ranges" ELSE "error"
    /\ UNCHANGED <<source, num_threads, ranges, chunk_pages, next_idx, pages,
                   globals, compacted, stages_run, final_markdown,
                   run_vars>>

\* converter.rs:56: start + chunk_size as u16 exceeds u16::MAX for some start
\* of the step_by
AddOverflows(total, chunk_size) ==
    \E k \in 1..((total + chunk_size - 1) \div chunk_size) :
        (k - 1) * chunk_size + (chunk_size % 65536) >= 65536

\* converter.rs:49-59: step_by asserts its step is not 0.  An addition that
\* overflows panics in a build with overflow checks and wraps in one without.
MakeRanges ==
    /\ pc = "ranges"
    /\ LET chunk_size == ChunkSize(total_pages, num_threads)
       IN  IF chunk_size = 0
           THEN /\ pc' = "panicked"
                /\ UNCHANGED <<ranges, chunk_pages, next_idx>>
           ELSE \/ /\ pc' = "extract"
                   /\ ranges' = Ranges(total_pages, chunk_size)
                   /\ chunk_pages' = [k \in DOMAIN ranges' |-> <<>>]
                   /\ next_idx' = [k \in DOMAIN ranges' |-> ranges'[k][1]]
                \/ /\ AddOverflows(total_pages, chunk_size)
                   /\ pc' = "panicked"
                   /\ UNCHANGED <<ranges, chunk_pages, next_idx>>
    /\ UNCHANGED <<source, num_threads, pages, globals, compacted, stages_run,
                   final_markdown,
                   run_vars>>

\* converter.rs:76-87: a worker cannot bind Pdfium or open the file: expect
\* panics, and rayon carries the panic to convert_file's caller
WorkerPanics ==
    /\ pc = "extract"
    /\ ~source.thread_opens
    /\ pc' = "panicked"
    /\ UNCHANGED <<source, num_threads, ranges, chunk_pages, next_idx, pages,
                   globals, compacted, stages_run, final_markdown,
                   run_vars>>

\* converter.rs:94-110: one iteration of the worker of range k
ExtractPage(k) ==
    /\ pc = "extract"
    /\ source.thread_opens
    /\ next_idx[k] < ranges[k][2]
    /\ LET page_idx == next_idx[k]
           src_page == source.pages[page_idx + 1]
       IN  chunk_pages' =
               [chunk_pages EXCEPT ![k] =
                   IF src_page.loads
                   THEN Append(@, Page(page_idx, extract_text_items(src_page)))
                   ELSE @]
    /\ next_idx' = [next_idx EXCEPT ![k] = @ + 1]
    /\ UNCHANGED <<pc, source, num_threads, ranges, pages, globals, compacted,
                   stages_run, final_markdown,
                   run_vars>>

\* every worker has left its loop
ExtractionJoined == \A k \in DOMAIN ranges : next_idx[k] >= ranges[k][2]

\* converter.rs:113-130: flatten().collect() keeps the order of the ranges;
\* then the sort and the ParseResult
CollectPages ==
    /\ pc = "extract"
    /\ source.thread_opens
    /\ ExtractionJoined
    /\ pages' = sort_by_index(Flatten(chunk_pages))
    /\ globals' = DefaultGlobals
    /\ pc' = "CalculateGlobalStats"
    /\ UNCHANGED <<source, num_threads, ranges, chunk_pages, next_idx, compacted,
                   stages_run, final_markdown,
                   run_vars>>

\* converter.rs:133 and stats.rs:10-18
RunCalculateGlobalStats ==
    /\ pc = "CalculateGlobalStats"
    /\ globals' \in calculate_global_stats(pages)
    /\ stages_run' = Append(stages_run, "CalculateGlobalStats")
    /\ pc' = "RemoveRepetitiveElements"
    /\ UNCHANGED <<source, num_threads, ranges, chunk_pages, next_idx, pages,
                   compacted, final_markdown,
                   run_vars>>

\* converter.rs:150
RunRemoveRepetitiveElements ==
    /\ pc = "RemoveRepetitiveElements"
    /\ pages' = RemoveRepetitiveElements(pages)
    /\ stages_run' = Append(stages_run, "RemoveRepetitiveElements")
    /\ pc' = "CompactLines"
    /\ UNCHANGED <<source, num_threads, ranges, chunk_pages, next_idx, globals,
                   compacted, final_markdown,
                   run_vars>>

\* converter.rs:155 and compact_lines.rs:11-20: the call, up to par_iter_mut
StartCompactLines ==
    /\ pc = "CompactLines"
    /\ compacted' = {}
    /\ stages_run' = Append(stages_run, "CompactLines")
    /\ pc' = "CompactLines.for_each"
    /\ UNCHANGED <<source, num_threads, ranges, chunk_pages, next_idx, pages,
                   globals, final_markdown,
                   run_vars>>

\* variant: the worker of page p also compacts the page after it
CompactLinesPageAndNext(p) ==
    /\ pc = "CompactLines.for_each"
    /\ p \in DOMAIN pages \ compacted
    /\ pages' = [q \in DOMAIN pages |->
                    IF q \in {p, p + 1} THEN CompactPage(pages[q], globals)
                    ELSE pages[q]]
    /\ compacted' = compacted \cup {p}
    /\ UNCHANGED <<pc, source, num_threads, ranges, chunk_pages, next_idx, globals,
                   stages_run, final_markdown,
                   run_vars>>

\* compact_lines.rs:20-53: the closure on the page at position p, run by
\* some rayon worker; each page is visited once
CompactLinesPage(p) ==
    /\ pc = "CompactLines.for_each"
    /\ p \in DOMAIN pages \ compacted
    /\ pages' = [pages EXCEPT ![p] = CompactPage(pages[p], globals)]
    /\ compacted' = compacted \cup {p}
    /\ UNCHANGED <<pc, source, num_threads, ranges, chunk_pages, next_idx, globals,
                   stages_run, final_markdown,
                   run_vars>>

\* variant: for_each returns as soon as one page is done
CompactLinesJoinedEarly == compacted # {}

\* for_each returns when the closure has run on every page
CompactLinesJoined == compacted = DOMAIN pages

FinishCompactLines ==
    /\ pc = "CompactLines.for_each"
    /\ CompactLinesJoined
    /\ pc' = "DetectCodeBlocks"
    /\ UNCHANGED <<source, num_threads, ranges, chunk_pages, next_idx, pages,
                   globals, compacted, stages_run, final_markdown,
                   run_vars>>

\* converter.rs:161
RunDetectCodeBlocks ==
    /\ pc = "DetectCodeBlocks"
    /\ pages' = DetectCodeBlocks(pages, globals)
    /\ stages_run' = Append(stages_run, "DetectCodeBlocks")
    /\ pc' = "DetectTOC"
    /\ UNCHANGED <<source, num_threads, ranges, chunk_pages, next_idx, globals,
                   compacted, final_markdown,
                   run_vars>>

\* converter.rs:167
RunDetectTOC ==
    /\ pc = "DetectTOC"
    /\ pages' = DetectTOC(pages, globals)
    /\ stages_run' = Append(stages_run, "DetectTOC")
    /\ pc' = "DetectHeaders"
    /\ UNCHANGED <<source, num_threads, ranges, chunk_pages, next_idx, globals,
                   compacted, final_markdown,
                   run_vars>>

\* variant: a later stage that writes result.globals
RunDetectHeadersWritingGlobals ==
    /\ pc = "DetectHeaders"
    /\ pages' = DetectHeaders(pages, globals)
    /\ globals' = DefaultGlobals
    /\ stages_run' = Append(stages_run, "DetectHeaders")
    /\ pc' = "ToMarkdown"
    /\ UNCHANGED <<source, num_threads, ranges, chunk_pages, next_idx,
                   compacted, final_markdown,
                   run_vars>>

\* converter.rs:172
RunDetectHeaders ==
    /\ pc = "DetectHeaders"
    /\ pages' = DetectHeaders(pages, globals)
    /\ stages_run' = Append(stages_run, "DetectHeaders")
    /\ pc' = "ToMarkdown"
    /\ UNCHANGED <<source, num_threads, ranges, chunk_pages, next_idx, globals,
                   compacted, final_markdown,
                   run_vars>>

\* converter.rs:177
RunToMarkdown ==
    /\ pc = "ToMarkdown"
    /\ pages' = ToMarkdown(pages, globals)
    /\ stages_run' = Append(stages_run, "ToMarkdown")
    /\ pc' = "combine"
    /\ UNCHANGED <<source, num_threads, ranges, chunk_pages, next_idx, globals,
                   compacted, final_markdown,
                   run_vars>>

\* converter.rs:179-232
Combine ==
    /\ pc = "combine"
    /\ final_markdown' = CombinePages(page_markdowns(pages))
    /\ pc' = "done"
    /\ UNCHANGED <<source, num_threads, ranges, chunk_pages, next_idx, pages,
                   globals, compacted, stages_run,
                   run_vars>>

----------------------------------------------------------------------------
(* The documents convert_file is run on *)

MaxPages == 3

MaxThreads == 2

Chars(word) == [i \in 1..Len(word) |-> word[i]]

F_Sans == <<"S", "a", "n", "s">>

F_SansBold == <<"S", "a", "n", "s", "-", "B", "o", "l", "d">>

\* a page Pdfium cannot load: doc.pages().get(page_idx) is an Err
UnloadablePage == [loads |-> FALSE, objects |-> <<>>]

\* a page whose only text object is blank
BlankPage ==
    [loads |-> TRUE,
     objects |-> <<TextItem(<<" ">>, U(72), U(700), U(3), U(11), F_Sans, U(11))>>]

\* two lines of body text, the first in two fragments, and a page footer
BodyPage ==
    [loads |-> TRUE,
     objects |->
        <<TextItem(<<"H", "e", "l">>, U(72), U(700), U(15), U(11), F_Sans, U(11)),
          TextItem(<<"l", "o">>, U(90), U(700), U(10), U(11), F_Sans, U(11)),
          TextItem(<<"e", "n", "d", ".">>, U(72), U(686), U(20), U(11), F_Sans, U(11)),
          TextItem(<<"p", " ", "1">>, U(72), U(40), U(15), U(11), F_Sans, U(11))>>]

\* a large bold title above one line of body text
TitlePage ==
    [loads |-> TRUE,
     objects |->
        <<TextItem(<<"T", "o", "p">>, U(72), U(700), U(40), U(24), F_SansBold, U(24)),
          TextItem(<<"a", "b", "c">>, U(72), U(650), U(15), U(11), F_Sans, U(11))>>]

SourcePages == {UnloadablePage, BlankPage, BodyPage, TitlePage}

SeqsUpTo(S, n) == UNION {[1..k -> S] : k \in 0..n}

Sources ==
    {[opens |-> o[1], thread_opens |-> o[2], pages |-> ps] :
        o \in {<<FALSE, TRUE>>, <<TRUE, FALSE>>, <<TRUE, TRUE>>},
        ps \in SeqsUpTo(SourcePages, MaxPages)}

Init ==
    /\ OneFile
    /\ pc = "load"
    /\ source \in Sources
    /\ num_threads \in 1..MaxThreads
    /\ ranges = <<>>
    /\ chunk_pages = <<>>
    /\ next_idx = <<>>
    /\ pages = <<>>
    /\ globals = DefaultGlobals
    /\ compacted = {}
    /\ stages_run = <<>>
    /\ final_markdown = <<>>

Next ==
    \/ LoadDocument
    \/ MakeRanges
    \/ WorkerPanics
    \/ \E k \in DOMAIN ranges : ExtractPage(k)
    \/ CollectPages
    \/ RunCalculateGlobalStats
    \/ RunRemoveRepetitiveElements
    \/ StartCompactLines
    \/ \E p \in DOMAIN pages : CompactLinesPage(p)
    \/ FinishCompactLines
    \/ RunDetectCodeBlocks
    \/ RunDetectTOC
    \/ RunDetectHeaders
    \/ RunToMarkdown
    \/ Combine

Spec == Init /\ [][Next]_vars

----------------------------------------------------------------------------
(* Properties of convert_file, checked under Spec *)

\* the stages have all been handed the document: extraction is over
Extracted == pc \notin {"load", "ranges", "extract", "error", "panicked"}

\* CompactLines has returned
CompactLinesReturned == Len(stages_run) >= 3 /\ pc # "CompactLines.for_each"

KindsOf(page) == {page.items[i].kind : i \in DOMAIN page.items}

\* C1: the stages are called in the fixed order CalculateGlobalStats,
\* RemoveRepetitiveElements, CompactLines, DetectCodeBlocks, DetectTOC,
\* DetectHeaders, ToMarkdown, each once: the calls made so far are always a
\* prefix of that list and the whole list at the end.  No stage overlaps
\* another: while CompactLines' workers run no later stage has been called,
\* and once a later stage can be called the workers have finished every page.
StagesInOrder ==
    /\ \E n \in 0..Len(PipelineStages) : stages_run = SubSeq(PipelineStages, 1, n)
    /\ pc = "done" => stages_run = PipelineStages
    /\ pc = "CompactLines.for_each" => Len(stages_run) = 3
    /\ CompactLinesReturned => compacted = DOMAIN pages

StagesInOrderWitness ==
    /\ pc = "done"
    /\ Len(pages) >= 2
    /\ stages_run = PipelineStages
    /\ compacted = DOMAIN pages

\* C2: result.globals is written by CalculateGlobalStats only, with the
\* statistics of the pages as extracted; no step of another stage changes it.
GlobalsWrittenOnce ==
    [][/\ globals' # globals => pc = "CalculateGlobalStats"
       /\ pc = "CalculateGlobalStats" /\ pc' # pc =>
              /\ globals' \in calculate_global_stats(pages)
              /\ globals' # globals]_vars

GlobalsWrittenOnceWitness ==
    /\ pc = "done"
    /\ globals # DefaultGlobals
    /\ DOMAIN globals.font_to_format # {}

\* C3: before CompactLines every item of every page is a TextItem; while its
\* workers run, the pages they have finished hold LineItems and the others
\* TextItems; from its return until ToMarkdown every item is a LineItem;
\* after ToMarkdown every page, also one that had no items, holds exactly one
\* item, a Markdown item.
ItemsHomogeneous ==
    /\ Len(stages_run) < 3 =>
           /\ \A p \in DOMAIN pages : KindsOf(pages[p]) \subseteq {"TextItem"}
           /\ \A k \in DOMAIN chunk_pages : \A i \in DOMAIN chunk_pages[k] :
                  KindsOf(chunk_pages[k][i]) \subseteq {"TextItem"}
    /\ pc = "CompactLines.for_each" =>
           \A p \in DOMAIN pages :
               KindsOf(pages[p]) \subseteq
                   (IF p \in compacted THEN {"LineItem"} ELSE {"TextItem"})
    /\ CompactLinesReturned /\ Len(stages_run) < 7 =>
           \A p \in DOMAIN pages : KindsOf(pages[p]) \subseteq {"LineItem"}
    /\ Len(stages_run) = 7 =>
           \A p \in DOMAIN pages :
               /\ Len(pages[p].items) = 1
               /\ pages[p].items[1].kind = "Markdown"

ItemsHomogeneousWitness ==
    /\ pc = "done"
    /\ \E i, j \in DOMAIN source.pages :
           /\ source.pages[i] = BlankPage
           /\ source.pages[j] = BodyPage
    /\ Len(pages) >= 2
    /\ \A p \in DOMAIN pages : Len(pages[p].items) = 1

\* no page of the source yields a text item (a source of zero pages included)
TextlessSource ==
    \A i \in DOMAIN source.pages : extract_text_items(source.pages[i]) = <<>>

\* C4: on a PDF that opens and has zero pages, or whose pages hold no text,
\* convert_file does not abort, and what it returns is empty or newlines only.
TextlessSourceCompletes ==
    source.opens /\ source.thread_opens /\ TextlessSource =>
        /\ pc # "panicked"
        /\ pc = "done" => Range(final_markdown) \subseteq {"\n"}

\* the pages' indices, in the order of result.pages
PageIndices == [p \in DOMAIN pages |-> pages[p].index]

StrictlyAscending(ns) == \A i, j \in DOMAIN ns : i < j => ns[i] < ns[j]

----------------------------------------------------------------------------
(* RemoveRepetitiveElements on documents with running headers and footers *)

MaxPrunePages == 4

YBottom == U(40)

YMiddle == U(400)

YTop == U(760)

Frag(text, x, y) == TextItem(text, x, y, U(20), U(10), F_Sans, U(10))

\* the page as Pdfium gives it, all of its text objects with text
TextPage(objects) == [loads |-> TRUE, objects |-> objects]

\* one body line above the footer "c 1"
FooterPage ==
    TextPage(<<Frag(<<"a", "b">>, U(72), YMiddle), Frag(<<"c", " ", "1">>, U(72), YBottom)>>)

\* header "h", a body line, and the footer "c 2" in two fragments whose y
\* differ by 0.0005
HeaderFooterPage ==
    TextPage(<<Frag(<<"h">>, U(72), YTop), Frag(<<"x", "y">>, U(72), YMiddle),
               Frag(<<"c", " ">>, U(72), YBottom), Frag(<<"2">>, U(92), YBottom + 1)>>)

\* nothing but the footer, "c 33"
FooterOnlyPage == TextPage(<<Frag(<<"c", " ", "3", "3">>, U(72), YBottom)>>)

\* header "h" and a bare page number
NumberPage == TextPage(<<Frag(<<"h">>, U(72), YTop), Frag(<<"7">>, U(72), YBottom)>>)

\* another bare page number, as the only line
NumberOnlyPage == TextPage(<<Frag(<<"1", "2">>, U(72), YBottom)>>)

\* a page without text objects
EmptyPage == TextPage(<<>>)

\* the footer's text as the top line, and a different bottom line
FooterOnTopPage ==
    TextPage(<<Frag(<<"C", " ", "4">>, U(72), YTop), Frag(<<"e", "n", "d">>, U(72), YBottom)>>)

PrunePages ==
    {FooterPage, HeaderFooterPage, FooterOnlyPage, NumberPage, NumberOnlyPage,
     EmptyPage, FooterOnTopPage}

\* result.pages when every page of the source loads
ExtractedPages(src) ==
    [i \in DOMAIN src.pages |-> Page(i - 1, extract_text_items(src.pages[i]))]

\* convert_file on one thread, between CalculateGlobalStats and
\* RemoveRepetitiveElements
InitPrune ==
    /\ OneFile
    /\ pc = "RemoveRepetitiveElements"
    /\ \E ps \in SeqsUpTo(PrunePages, MaxPrunePages) :
           /\ ps # <<>>
           /\ source = [opens |-> TRUE, thread_opens |-> TRUE, pages |-> ps]
    /\ num_threads = 1
    /\ ranges = Ranges(total_pages, ChunkSize(total_pages, num_threads))
    /\ pages = ExtractedPages(source)
    /\ chunk_pages = <<pages>>
    /\ next_idx = <<total_pages>>
    /\ globals \in calculate_global_stats(pages)
    /\ compacted = {}
    /\ stages_run = <<"CalculateGlobalStats">>
    /\ final_markdown = <<>>

NextPrune == RunRemoveRepetitiveElements

SpecPrune == InitPrune /\ [][NextPrune]_vars

----------------------------------------------------------------------------
(* Properties of RemoveRepetitiveElements, checked under SpecPrune *)

\* the pages RemoveRepetitiveElements was given
Before == ExtractedPages(source)

Pruned == pc = "CompactLines"

StripDigits(text) == SelectSeq(text, LAMBDA c : c \notin Digits)

Blank(text) == \A i \in DOMAIN text : text[i] \in WhitespaceChars

\* the fragments of a page's bottom line (k = 1) or top line (k = 2): those
\* within 0.001 of the page's least, or greatest, y
InBand(k, item, items) ==
    IF k = 1 THEN is_min(item, items) ELSE is_max(item, items)

\* the text of that line; the empty text on a page without fragments
BandText(k, items) ==
    Flatten([i \in DOMAIN items |->
        IF InBand(k, items[i], items) THEN items[i].v.text ELSE <<>>])

Fingerprint(k, items) == calculate_page_hashes(items)[k]

\* the fingerprints of the pages given, <<bottom, top>> per page
Fingerprints == [q \in DOMAIN Before |-> calculate_page_hashes(Before[q].items)]

\* the pages whose line at position k has the fingerprint of page p's
BandCount(fp, k, p) ==
    Cardinality({q \in DOMAIN fp : Before[q].items # <<>> /\ fp[q][k] = fp[p][k]})

\* at least max(3, ceil(2/3 * page count)) pages
Repeated(fp, k, p) ==
    /\ BandCount(fp, k, p) >= 3
    /\ 3 * BandCount(fp, k, p) >= 2 * Len(fp)

\* every page has a bottom line, the same on all pages up to its digits
SameFooterDocument ==
    \A p, q \in DOMAIN Before :
        /\ Before[p].items # <<>>
        /\ StripDigits(BandText(1, Before[p].items)) =
               StripDigits(BandText(1, Before[q].items))

\* C6, as stated: where every page's bottom line is the same text up to a
\* varying number, every fragment of that line is removed on every page and
\* the rest of every page is unchanged, in its order.
FooterRemovedRestUnchanged ==
    Pruned /\ SameFooterDocument =>
        \A p \in DOMAIN Before :
            pages[p] = [Before[p] EXCEPT !.items =
                SelectSeq(Before[p].items,
                          LAMBDA item : ~InBand(1, item, Before[p].items))]

\* C6, amended: in such a document of at least 3 pages every fragment of the
\* bottom line is removed on every page; the other fragments stay, unaltered
\* and in order, except those of a page's top line when that top line's
\* fingerprint is on at least max(3, ceil(2/3 * page count)) pages: they are
\* removed too.
FooterRemovedOnThreePages ==
    Pruned /\ SameFooterDocument /\ Len(Before) >= 3 =>
        LET before == Before
            fp == Fingerprints
        IN  \A p \in DOMAIN before :
                LET top_repeated == Repeated(fp, 2, p)
                IN  pages[p] = [before[p] EXCEPT !.items =
                        SelectSeq(before[p].items,
                                  LAMBDA item :
                                      /\ ~InBand(1, item, before[p].items)
                                      /\ ~(InBand(2, item, before[p].items) /\ top_repeated))]

FooterRemovedWitness ==
    /\ Pruned
    /\ SameFooterDocument
    /\ Len(Before) >= 3
    /\ \E p \in DOMAIN pages :
           /\ source.pages[p] = HeaderFooterPage
           /\ Len(pages[p].items) = 2
    /\ \E p \in DOMAIN pages :
           /\ source.pages[p] = FooterOnlyPage
           /\ pages[p].items = <<>>

\* C7, as stated: two pages whose bottom (or top) line texts differ only by
\* digits have the same fingerprint, a digits-only text against the text
\* left without its digits included.
FingerprintIgnoresDigits ==
    LET text == [p \in DOMAIN pages |-> [k \in {1, 2} |-> BandText(k, pages[p].items)]]
        fp == [p \in DOMAIN pages |-> calculate_page_hashes(pages[p].items)]
    IN  \A p, q \in DOMAIN pages : \A k \in {1, 2} :
            p < q /\ StripDigits(text[p][k]) = StripDigits(text[q][k])
            => fp[p][k] = fp[q][k]

\* C7, amended: the same, for two texts that are both blank or both not
\* blank.  A digits-only line has the fingerprint of the empty normalized
\* string, which is not the fingerprint 0 of a page without text.
FingerprintIgnoresDigitsInText ==
    LET text == [p \in DOMAIN pages |-> [k \in {1, 2} |-> BandText(k, pages[p].items)]]
        fp == [p \in DOMAIN pages |-> calculate_page_hashes(pages[p].items)]
    IN  \A p, q \in DOMAIN pages : \A k \in {1, 2} :
            /\ p < q
            /\ Blank(text[p][k]) <=> Blank(text[q][k])
            /\ StripDigits(text[p][k]) = StripDigits(text[q][k])
            => fp[p][k] = fp[q][k]

FingerprintIgnoresDigitsWitness ==
    \E p, q, r, t \in DOMAIN pages :
        /\ BandText(1, pages[p].items) = <<"c", " ", "1">>
        /\ BandText(1, pages[q].items) = <<"c", " ", "3", "3">>
        /\ Fingerprint(1, pages[p].items) = Fingerprint(1, pages[q].items)
        /\ BandText(1, pages[r].items) = <<"7">>
        /\ BandText(1, pages[t].items) = <<"1", "2">>
        /\ Fingerprint(1, pages[r].items) = Fingerprint(1, pages[t].items)

\* no fragment of the line at position k of page p is left
BandDropped(k, p) ==
    \A i \in DOMAIN Before[p].items :
        InBand(k, Before[p].items[i], Before[p].items) =>
            \A j \in DOMAIN pages[p].items : pages[p].items[j] # Before[p].items[i]

----------------------------------------------------------------------------
(* CalculateGlobalStats on documents of evenly spaced body lines *)

MaxFrags == 3

\* the vertical distances tried: 3, 5, 5.0005, 12, 12.345, 12.3455, 14.2
PitchDeltas ==
    {U(3), U(5), U(5) + 1, U(12), U(12) + 690, U(12) + 691, U(14) + 400}

\* fragment texts with three letters and with two
BodyTexts == {<<"a", "b", "c">>, <<"a", "b">>}

\* a page of body-size fragments, one per text, each D below the one before
PitchPage(texts, D) ==
    TextPage([i \in DOMAIN texts |->
        TextItem(texts[i], U(72), U(700) - (i - 1) * D, U(20), U(11), F_Sans, U(11))])

PitchPages(D) ==
    {PitchPage(texts, D) : texts \in SeqsUpTo(BodyTexts, MaxFrags) \ {<<>>}}

PitchSources ==
    UNION {{[opens |-> TRUE, thread_opens |-> TRUE, pages |-> ps] :
               ps \in SeqsUpTo(PitchPages(D), 2) \ {<<>>}} : D \in PitchDeltas}

\* convert_file on one thread, about to call CalculateGlobalStats
InitStats ==
    /\ OneFile
    /\ pc = "CalculateGlobalStats"
    /\ source \in PitchSources
    /\ num_threads = 1
    /\ ranges = Ranges(total_pages, ChunkSize(total_pages, num_threads))
    /\ pages = ExtractedPages(source)
    /\ chunk_pages = <<pages>>
    /\ next_idx = <<total_pages>>
    /\ globals = DefaultGlobals
    /\ compacted = {}
    /\ stages_run = <<>>
    /\ final_markdown = <<>>

NextStats == RunCalculateGlobalStats

SpecStats == InitStats /\ [][NextStats]_vars

----------------------------------------------------------------------------
(* Properties of CalculateGlobalStats, checked under SpecStats *)

Profiled == pc = "RemoveRepetitiveElements"

\* every fragment of the document has the dominant body size
AllAtBodySize ==
    \A p \in DOMAIN pages : \A i \in DOMAIN pages[p].items :
        Abs(pages[p].items[i].v.font_size - globals.most_used_height) < Scale \div 100

\* the document has consecutive fragments, and each is D below the one before
SpacedAt(D) ==
    /\ \E p \in DOMAIN pages : Len(pages[p].items) >= 2
    /\ \A p \in DOMAIN pages : \A i \in DOMAIN pages[p].items :
           i > 1 => pages[p].items[i - 1].v.y - pages[p].items[i].v.y = D

\* v is D rounded to 2 decimals: a multiple of 0.01 at most 0.005 from D
RoundedTo2(v, D) ==
    /\ v % (Scale \div 100) = 0
    /\ 2 * Abs(v - D) <= Scale \div 100

Letters(text) == Cardinality({i \in DOMAIN text : text[i] \in UpperLetters \cup LowerLetters})

\* two consecutive fragments of one page have at least 3 letters each
HasWordPair ==
    \E p \in DOMAIN pages : \E i \in DOMAIN pages[p].items :
        /\ i > 1
        /\ Letters(pages[p].items[i - 1].v.text) >= 3
        /\ Letters(pages[p].items[i].v.text) >= 3

\* every fragment has at least 3 letters
AllWords ==
    \A p \in DOMAIN pages : \A i \in DOMAIN pages[p].items :
        Letters(pages[p].items[i].v.text) >= 3

\* C9, as stated: fragments all at the dominant body size, consecutive ones
\* spaced at one constant positive D: the dominant line pitch is D rounded
\* to 2 decimals, for every positive D.  It is stated here for documents
\* whose fragments all have at least 3 letters, where it fails all the same.
PitchIsRoundedDelta ==
    \A D \in PitchDeltas :
        Profiled /\ AllAtBodySize /\ AllWords /\ SpacedAt(D) /\ D > 0 =>
            RoundedTo2(globals.most_used_distance, D)

\* C9, amended: the same for every D above 5, when two consecutive fragments
\* of one page have at least 3 letters each.  A distance of 5 or less is
\* taken for jitter and not counted, and a fragment of fewer than 3 letters
\* breaks the chain of distances; with no distance counted the pitch is 12.
PitchIsRoundedDeltaAboveFive ==
    \A D \in PitchDeltas :
        Profiled /\ AllAtBodySize /\ SpacedAt(D) /\ D > U(5) /\ HasWordPair =>
            RoundedTo2(globals.most_used_distance, D)

PitchIsRoundedDeltaWitness ==
    /\ Profiled
    /\ AllAtBodySize
    /\ SpacedAt(U(12) + 691)
    /\ HasWordPair
    /\ globals.most_used_distance = U(12) + 700

----------------------------------------------------------------------------
(* CompactLines on pages whose first line comes in two fragments *)

\* the horizontal gaps tried: -2, 3, 5, 5.0005, 10, 30, 30.0005, 40, 40.0005
Gaps == {-U(2), U(3), U(5), U(5) + 1, U(10), U(30), U(30) + 1, U(40), U(40) + 1}

LeftTexts == {<<"H", "e", "l">>, <<"(">>, <<"x", ".">>}

RightTexts == {<<"l", "o">>, <<")">>, <<"y">>}

\* fragment A at x = 100, 20 wide; fragment B after the gap, on A's baseline
\* or 1 unit below it; a line of body text far below
MergePage(a_text, a_font, a_size, b_text, b_font, gap, drop) ==
    TextPage(<<TextItem(a_text, U(100), U(700), U(20), a_size, a_font, a_size),
               TextItem(b_text, U(120) + gap, U(700) - drop, U(10), U(11), b_font, U(11)),
               TextItem(<<"b", "o", "d", "y">>, U(100), U(600), U(40), U(11), F_Sans, U(11))>>)

MergePages ==
    {MergePage(a_text, a_font, a_size, b_text, b_font, gap, drop) :
        a_text \in LeftTexts, a_font \in {F_Sans, F_SansBold}, a_size \in {U(11), U(20)},
        b_text \in RightTexts, b_font \in {F_Sans, F_SansBold}, gap \in Gaps,
        drop \in {0, U(1)}}

\* convert_file on one thread, about to call CompactLines on a 1-page document
InitCompact ==
    /\ OneFile
    /\ pc = "CompactLines"
    /\ \E page \in MergePages :
           source = [opens |-> TRUE, thread_opens |-> TRUE, pages |-> <<page>>]
    /\ num_threads = 1
    /\ ranges = Ranges(total_pages, ChunkSize(total_pages, num_threads))
    /\ pages = ExtractedPages(source)
    /\ chunk_pages = <<pages>>
    /\ next_idx = <<total_pages>>
    /\ globals \in calculate_global_stats(pages)
    /\ compacted = {}
    /\ stages_run = <<"CalculateGlobalStats", "RemoveRepetitiveElements">>
    /\ final_markdown = <<>>

NextCompact ==
    \/ StartCompactLines
    \/ \E p \in DOMAIN pages : CompactLinesPage(p)
    \/ FinishCompactLines

SpecCompact == InitCompact /\ [][NextCompact]_vars

----------------------------------------------------------------------------
(* Properties of the merge of create_line_item, checked under SpecCompact *)

\* the two fragments of the page's first line as CompactLines was given
\* them, A the left one
FragmentA == Before[1].items[1].v

FragmentB == Before[1].items[2].v

\* B is on A's line (within 0.8 of A's font size) and has A's font
OneLineOneFont ==
    /\ 10 * Abs(FragmentA.y - FragmentB.y) <= 8 * FragmentA.font_size
    /\ FragmentA.font = FragmentB.font

GapAB == FragmentB.x - (FragmentA.x + FragmentA.width)

\* neither A ends with an opening bracket nor B starts with closing punctuation
NoPunctuationAtJoint ==
    /\ FragmentA.text[Len(FragmentA.text)] \notin {"(", "[", "{"}
    /\ FragmentB.text[1] \notin {".", ",", ":", ";", "?", "!", ")", "]", "}"}

\* the merged text as the line holds it after the next step of
\* create_line_item, which wraps the text of an emphasised font in its markup
AsLineText(text) ==
    ApplyFormat([FragmentA EXCEPT !.text = text], globals.font_to_format).text

\* the first line of the compacted page holds one fragment, with this text
FirstLineIs(text) ==
    /\ Len(pages[1].items[1].v.items) = 1
    /\ pages[1].items[1].v.items[1].text = AsLineText(text)

\* C10: two x-adjacent fragments of one line with the same font become one
\* fragment: at a gap of at most 5 the texts are joined with nothing between
\* them; at a gap above 5 and at most max(2 * font size, 30) with one space
\* between them when there is no punctuation at the joint.
AdjacentFragmentsMerged ==
    1 \in compacted /\ OneLineOneFont =>
        /\ GapAB <= U(5) => FirstLineIs(FragmentA.text \o FragmentB.text)
        /\ /\ GapAB > U(5)
           /\ GapAB <= 2 * FragmentA.font_size \/ GapAB <= U(30)
           /\ NoPunctuationAtJoint
           => FirstLineIs(FragmentA.text \o <<" ">> \o FragmentB.text)

AdjacentFragmentsMergedWitness ==
    /\ 1 \in compacted
    /\ OneLineOneFont
    /\ GapAB = U(3)
    /\ FragmentA.text = <<"H", "e", "l">>
    /\ FragmentB.text = <<"l", "o">>
    /\ Len(pages[1].items[1].v.items) = 1
    /\ pages[1].items[1].v.items[1].text = <<"H", "e", "l", "l", "o">>

----------------------------------------------------------------------------
(* DetectHeaders on documents with a ladder of font sizes *)

MaxHeadPages == 2

\* a line of its own: one text object at the left margin
HeadLine(text, y, font, size) == TextItem(text, U(72), y, U(40), size, font, size)

BodyLine == HeadLine(<<"a", "b", "c", "d", "e", "f">>, U(100), F_Sans, U(11))

Line24 == HeadLine(<<"T", "o", "p">>, U(700), F_Sans, U(24))

Line18 == HeadLine(<<"S", "e", "c">>, U(600), F_Sans, U(18))

Line14 == HeadLine(<<"S", "u", "b">>, U(500), F_Sans, U(14))

\* a list item set in size 14
ListLine14 == HeadLine(<<"-", "a", "b", "c">>, U(400), F_Sans, U(14))

\* a line in the bold font, size 14: CompactLines wraps its text in **
BoldLine14 == HeadLine(<<"H", "e", "a", "d">>, U(300), F_SansBold, U(14))

HeadPages ==
    {TextPage(<<Line24, BodyLine>>),
     TextPage(<<Line24, Line18, BodyLine>>),
     TextPage(<<Line24, Line18, Line14, BodyLine>>),
     TextPage(<<Line18, Line14, BodyLine>>),
     TextPage(<<Line14, BodyLine>>),
     TextPage(<<ListLine14, BodyLine>>),
     TextPage(<<BoldLine14, ListLine14, BodyLine>>),
     TextPage(<<BodyLine>>)}

\* convert_file on one thread, about to call CalculateGlobalStats
InitHeaders ==
    /\ OneFile
    /\ pc = "CalculateGlobalStats"
    /\ \E ps \in SeqsUpTo(HeadPages, MaxHeadPages) :
           /\ ps # <<>>
           /\ source = [opens |-> TRUE, thread_opens |-> TRUE, pages |-> ps]
    /\ num_threads = 1
    /\ ranges = Ranges(total_pages, ChunkSize(total_pages, num_threads))
    /\ pages = ExtractedPages(source)
    /\ chunk_pages = <<pages>>
    /\ next_idx = <<total_pages>>
    /\ globals = DefaultGlobals
    /\ compacted = {}
    /\ stages_run = <<>>
    /\ final_markdown = <<>>

NextHeaders ==
    \/ RunCalculateGlobalStats
    \/ RunRemoveRepetitiveElements
    \/ StartCompactLines
    \/ \E p \in DOMAIN pages : CompactLinesPage(p)
    \/ FinishCompactLines
    \/ RunDetectCodeBlocks
    \/ RunDetectTOC
    \/ RunDetectHeaders

SpecHeaders == InitHeaders /\ [][NextHeaders]_vars

----------------------------------------------------------------------------
(* Properties of DetectHeaders, checked under SpecHeaders *)

\* the largest font size of line i of page p
SizeOf(p, i) == LineFontSize(pages[p].items[i].v)

IsParagraphLine(p, i) ==
    pages[p].items[i].kind = "LineItem" /\ pages[p].items[i].v.block_type = Paragraph

\* some line of the document has this size
HasLineOfSize(size) ==
    \E p \in DOMAIN pages : \E i \in DOMAIN pages[p].items :
        pages[p].items[i].kind = "LineItem" /\ SizeOf(p, i) = size

\* the same, for a line that is not shaped like a list item (its text does
\* not start with - or *, or with a digit when it holds a dot)
HasPlainLineOfSize(size) ==
    \E p \in DOMAIN pages : \E i \in DOMAIN pages[p].items :
        /\ pages[p].items[i].kind = "LineItem"
        /\ SizeOf(p, i) = size
        /\ LET t == trim(LineText(pages[p].items[i].v))
           IN  ~(\/ (t # <<>> /\ t[1] \in {"-", "*"})
                 \/ (t # <<>> /\ t[1] \in Digits /\ \E k \in DOMAIN t : t[k] = "."))

\* page p holds a line of the document's maximum height
OnTitlePage(p) ==
    \E i \in DOMAIN pages[p].items :
        pages[p].items[i].kind = "LineItem" /\ SizeOf(p, i) = globals.max_height

\* DetectHeaders is about to run on a document with dominant size 11 and
\* lines of the sizes 24, 18 and 14
LadderDocument ==
    /\ pc = "DetectHeaders"
    /\ globals.most_used_height = U(11)
    /\ HasLineOfSize(U(24)) /\ HasLineOfSize(U(18)) /\ HasLineOfSize(U(14))

\* the tag DetectHeaders leaves on line i of page p
TagAfter(p, i) == pages'[p].items[i].v.block_type.tag

\* C11, as stated: in such a document the Paragraph lines of size 24 on a
\* title page become H1, those of size 18 on the other pages H2, and those of
\* size 14 H3.
LadderFrom24IsH1H2H3 ==
    [][LadderDocument =>
        \A p \in DOMAIN pages : \A i \in DOMAIN pages[p].items :
            IsParagraphLine(p, i) =>
                /\ SizeOf(p, i) = U(24) /\ OnTitlePage(p) => TagAfter(p, i) = "H1"
                /\ SizeOf(p, i) = U(18) /\ ~OnTitlePage(p) => TagAfter(p, i) = "H2"
                /\ SizeOf(p, i) = U(14) => TagAfter(p, i) = "H3"]_vars

\* C11, what the code does: the ladder counts the size 24 as its position 0,
\* so with maximum height 24 and a line of each size that is not list-shaped,
\* the Paragraph lines of size 24 (all on title pages) become H1, those of
\* size 18 become H2 on a title page and H3 on the other pages, and those of
\* size 14 become H4 on every page.
LadderFrom24IsH1H3H4 ==
    [][/\ LadderDocument
       /\ globals.max_height = U(24)
       /\ HasPlainLineOfSize(U(24)) /\ HasPlainLineOfSize(U(18))
       /\ HasPlainLineOfSize(U(14))
       =>
        \A p \in DOMAIN pages : \A i \in DOMAIN pages[p].items :
            IsParagraphLine(p, i) =>
                /\ SizeOf(p, i) = U(24) => OnTitlePage(p) /\ TagAfter(p, i) = "H1"
                /\ SizeOf(p, i) = U(18) =>
                       TagAfter(p, i) = IF OnTitlePage(p) THEN "H2" ELSE "H3"
                /\ SizeOf(p, i) = U(14) => TagAfter(p, i) = "H4"]_vars

\* a title page with the line of size 24 as H1, and a second page whose
\* lines of size 18 and 14 have become H3 and H4
LadderWitness ==
    /\ pc = "ToMarkdown"
    /\ globals.most_used_height = U(11)
    /\ globals.max_height = U(24)
    /\ Len(pages) = 2
    /\ \E i \in DOMAIN pages[1].items :
           SizeOf(1, i) = U(24) /\ pages[1].items[i].v.block_type.tag = "H1"
    /\ ~OnTitlePage(2)
    /\ \E i \in DOMAIN pages[2].items :
           SizeOf(2, i) = U(18) /\ pages[2].items[i].v.block_type.tag = "H3"
    /\ \E i \in DOMAIN pages[2].items :
           SizeOf(2, i) = U(14) /\ pages[2].items[i].v.block_type.tag = "H4"

\* the tags of all lines of a document, page by page
BlockTags(ps) ==
    [p \in DOMAIN ps |->
        [i \in DOMAIN ps[p].items |->
            IF ps[p].items[i].kind = "LineItem"
            THEN ps[p].items[i].v.block_type ELSE Paragraph]]

\* DetectHeaders has returned
HeadersDetected == pc = "ToMarkdown"

\* C15: DetectHeaders run again on its own result leaves every line's
\* BlockType as it is.
DetectHeadersIdempotent ==
    HeadersDetected => BlockTags(DetectHeaders(pages, globals)) = BlockTags(pages)

----------------------------------------------------------------------------
(* DetectTOC on documents with pages of numbered entries *)

MaxTocPages == 2

XLeft == U(72)

XRight == U(90)

TocFrag(text, x, y) == TextItem(text, x, y, U(30), U(11), F_Sans, U(11))

\* line j of a page, 14 below the line before
LineY(j) == U(700) - (j - 1) * U(14)

\* an entry: a title at x and its page number at the right margin
EntryAt(x, j) ==
    <<TocFrag(<<"S", "e", "c">>, x, LineY(j)), TocFrag(<<"5">>, U(400), LineY(j))>>

\* an entry whose page number, in another font, comes before its title
\* among the page's objects
EntryNumberFirstAt(x, j) ==
    <<TextItem(<<"5">>, U(400), LineY(j), U(30), U(11), F_SansBold, U(11)),
      TocFrag(<<"S", "e", "c">>, x, LineY(j))>>

\* a line without a page number
HeadlineAt(j) == <<TocFrag(<<"I", "n", "d", "e", "x">>, XLeft, LineY(j))>>

\* the first line of a title that wraps, in two fragments 80 apart
WrappedAt(x, j) ==
    <<TocFrag(<<"L", "o", "n", "g">>, x, LineY(j)),
      TocFrag(<<"t", "i", "t", "l", "e">>, x + U(110), LineY(j))>>

\* 10 lines, 8 of them entries; the second line wraps into the third
Page8of10 ==
    TextPage(HeadlineAt(1) \o WrappedAt(XRight, 2) \o EntryAt(XRight, 3)
             \o EntryAt(XLeft, 4) \o EntryAt(XLeft, 5) \o EntryAt(XRight, 6)
             \o EntryAt(XLeft, 7) \o EntryAt(XLeft, 8) \o EntryAt(XLeft, 9)
             \o EntryAt(XLeft, 10))

\* 4 lines, 3 of them entries
Page3of4 ==
    TextPage(HeadlineAt(1) \o EntryAt(XLeft, 2) \o EntryAt(XLeft, 3)
             \o EntryNumberFirstAt(XLeft, 4))

\* 5 lines, 4 of them entries, at two left margins
Page4of5 ==
    TextPage(HeadlineAt(1) \o EntryAt(XLeft, 2) \o EntryAt(XRight, 3)
             \o EntryAt(XRight, 4) \o EntryAt(XLeft, 5))

\* 4 entries, all at the right margin, one of them 3 further right
Page4of4 ==
    TextPage(EntryAt(XRight, 1) \o EntryAt(XRight, 2) \o EntryAt(XRight + U(3), 3)
             \o EntryAt(XRight, 4))

\* one line of text
PlainPage == TextPage(HeadlineAt(1))

TocPages == {Page8of10, Page3of4, Page4of5, Page4of4, PlainPage, EmptyPage}

Alphabet ==
    <<"a", "b", "c", "d", "e", "f", "g", "h", "i", "j", "k", "l", "m", "n",
      "o", "p", "q", "r", "s", "t", "u", "v", "w", "x", "y", "z">>

\* the i-th page of front matter: one line of its own wording
FillerPage(i) == TextPage(<<TocFrag(<<"f", Alphabet[i], "g">>, XLeft, LineY(1))>>)

\* the numbers of front-matter pages tried ahead of the pages above
FillerCounts == {0, MaxPagesToEvaluate - 1, MaxPagesToEvaluate}

TocSources ==
    {[opens |-> TRUE, thread_opens |-> TRUE,
      pages |-> [i \in 1..k |-> FillerPage(i)] \o ps] :
        k \in FillerCounts, ps \in SeqsUpTo(TocPages, MaxTocPages) \ {<<>>}}

\* CompactLines::transform: the closure on every page
CompactLines(ps, gs) == [p \in DOMAIN ps |-> CompactPage(ps[p], gs)]

\* convert_file on one thread, CompactLines having returned
InitToc ==
    /\ OneFile
    /\ pc = "DetectCodeBlocks"
    /\ source \in TocSources
    /\ num_threads = 1
    /\ ranges = Ranges(total_pages, ChunkSize(total_pages, num_threads))
    /\ chunk_pages = <<ExtractedPages(source)>>
    /\ next_idx = <<total_pages>>
    /\ globals \in calculate_global_stats(ExtractedPages(source))
    /\ pages = CompactLines(RemoveRepetitiveElements(ExtractedPages(source)), globals)
    /\ compacted = DOMAIN pages
    /\ stages_run = <<"CalculateGlobalStats", "RemoveRepetitiveElements", "CompactLines">>
    /\ final_markdown = <<>>

NextToc ==
    \/ RunDetectCodeBlocks
    \/ RunDetectTOC
    \/ RunDetectHeaders

SpecToc == InitToc /\ [][NextToc]_vars

----------------------------------------------------------------------------
(* Properties of DetectTOC, checked under SpecToc *)

LinesOf(p) == {i \in DOMAIN pages[p].items : pages[p].items[i].kind = "LineItem"}

\* the line ends in a page number: its last fragment that is not dot-fill
\* ends in a digit once trailing emphasis markers and spaces are taken off
EndsInPageNumber(line) ==
    LET words == SelectSeq(line.items,
                     LAMBDA w : \E k \in DOMAIN w.text : w.text[k] # ".")
        last == trim_end_matches(words[Len(words)].text, {"*", "_", " "})
    IN  words # <<>> /\ last # <<>> /\ last[Len(last)] \in Digits

NumberedLinesOf(p) == {i \in LinesOf(p) : EndsInPageNumber(pages[p].items[i].v)}

\* page p (counted from 1) is among the first 20 pages and more than 75% of
\* its lines end in a page number
QualifiesAsToc(p) ==
    /\ p <= 20
    /\ LinesOf(p) # {}
    /\ 100 * Cardinality(NumberedLinesOf(p)) > 75 * Cardinality(LinesOf(p))

\* the TocItem lines DetectTOC leaves on page p
TocItemsAfter(p) ==
    {i \in DOMAIN pages'[p].items :
        /\ pages'[p].items[i].kind = "LineItem"
        /\ pages'[p].items[i].v.block_type.tag = "TocItem"}

\* C12: DetectTOC makes TOC entries on a page if and only if the page is
\* among the first 20 and more than 75% of its lines end in a page number;
\* on such a page every line ending in a page number becomes an entry.  The
\* items of every other page are left as they are.
TocPageIffAbove75Percent ==
    [][pc = "DetectTOC" =>
        \A p \in DOMAIN pages :
            IF QualifiesAsToc(p)
            THEN Cardinality(TocItemsAfter(p)) = Cardinality(NumberedLinesOf(p))
            ELSE pages'[p] = pages[p]]_vars

\* after 19 pages of front matter the 8-of-10 page, the 20th, has become a
\* TOC page, and the page of 4 entries after it, the 21st, is as it was
TocPageWitness ==
    /\ pc = "DetectHeaders"
    /\ Len(pages) = 21
    /\ source.pages[20] = Page8of10
    /\ source.pages[21] = Page4of4
    /\ \E i \in DOMAIN pages[20].items : pages[20].items[i].v.block_type.tag = "TocItem"
    /\ Len(pages[21].items) = 4
    /\ \A i \in DOMAIN pages[21].items : pages[21].items[i].v.block_type.tag # "TocItem"

\* DetectTOC has returned
TocDetected == pc \in {"DetectHeaders", "ToMarkdown"}

\* the TOC entries of page p, in page order, as links
TocEntriesOf(p) ==
    LET sel == SelectSeq(pages[p].items,
                   LAMBDA it : it.kind = "LineItem" /\ it.v.block_type.tag = "TocItem")
    IN  [i \in DOMAIN sel |->
            [line_item |-> sel[i].v, level |-> sel[i].v.block_type.level]]

\* the TOC entries of the whole document
AllTocEntries == Flatten([p \in DOMAIN pages |-> TocEntriesOf(p)])

\* the left-x clusters of a list of entries, ascending: an x opens a cluster
\* when it is 6 or more away from every cluster opened before it
ClustersOf(entries) == calculate_unique_x(entries)

\* the entry has the level of the cluster nearest to its left x
LeveledBy(clusters, entry) ==
    \E c \in DOMAIN clusters :
        /\ entry.level = c - 1
        /\ \A d \in DOMAIN clusters :
               Abs(clusters[c] - entry.line_item.x) <= Abs(clusters[d] - entry.line_item.x)

\* C13, as stated: when the TOC entries of the document show more than one
\* left-x cluster, every TOC entry has the level of the nearest of these
\* document-wide clusters.
TocLevelByDocumentClusters ==
    TocDetected /\ Len(ClustersOf(AllTocEntries)) > 1 =>
        \A e \in DOMAIN AllTocEntries :
            LeveledBy(ClustersOf(AllTocEntries), AllTocEntries[e])

\* the pages that hold TOC entries
TocPagesFound == {p \in DOMAIN pages : TocEntriesOf(p) # <<>>}

\* C13, what the code does: the clusters are those of the entry's own page.
\* When the first TOC page of the document shows more than one cluster, the
\* entries of every TOC page have the level of the nearest cluster of their
\* page, so a page whose entries share one margin has them all at level 0.
TocLevelByPageClusters ==
    TocDetected /\ TocPagesFound # {} =>
        LET first == CHOOSE p \in TocPagesFound : \A q \in TocPagesFound : p <= q
        IN  Len(ClustersOf(TocEntriesOf(first))) > 1 =>
                \A p \in TocPagesFound : \A e \in DOMAIN TocEntriesOf(p) :
                    LeveledBy(ClustersOf(TocEntriesOf(p)), TocEntriesOf(p)[e])

\* two TOC pages: on the first the entries at 90 have level 1, on the second,
\* where every entry is at 90 or 93, they have level 0
TocLevelWitness ==
    /\ TocDetected
    /\ source.pages = <<Page4of5, Page4of4>>
    /\ \E e \in DOMAIN TocEntriesOf(1) :
           TocEntriesOf(1)[e].line_item.x = XRight /\ TocEntriesOf(1)[e].level = 1
    /\ \A e \in DOMAIN TocEntriesOf(2) : TocEntriesOf(2)[e].level = 0
    /\ \E e \in DOMAIN TocEntriesOf(2) : TocEntriesOf(2)[e].line_item.x = XRight

\* the fragments of the line are in ascending order of their left x
AscendingByX(line) ==
    \A i \in DOMAIN line.items : \A j \in DOMAIN line.items :
        i < j => line.items[i].x <= line.items[j].x

\* CompactLines has returned and ToMarkdown has not yet rendered the lines
LinesStage == pc \in {"DetectCodeBlocks", "DetectTOC", "DetectHeaders", "ToMarkdown"}

----------------------------------------------------------------------------
(* DetectCodeBlocks on pages of prose, indented lines and italic lines *)

MaxCodeLines == 3

F_SansItalic == <<"S", "a", "n", "s", "-", "I", "t", "a", "l", "i", "c">>

XIndented == XLeft + U(6)

CodeFrag(text, x, j, font) == TextItem(text, x, LineY(j), U(40), U(11), font, U(11))

\* the lines a page is made of, each as line j of the page
ProseAt(j) == CodeFrag(<<"a", "b", "c", "d">>, XLeft, j, F_Sans)

IndentedProseAt(j) == CodeFrag(<<"a", "b", "c", "d">>, XIndented, j, F_Sans)

DefAt(j) == CodeFrag(<<"d", "e", "f", " ", "f", "(", ")", ":">>, XIndented, j, F_Sans)

DefAtMarginAt(j) == CodeFrag(<<"d", "e", "f", " ", "f", "(", ")", ":">>, XLeft, j, F_Sans)

\* an indented line in italics with the keyword "for "
ItalicForAt(j) == CodeFrag(<<"f", "o", "r", " ", "x">>, XIndented, j, F_SansItalic)

ItalicAt(j) == CodeFrag(<<"a", "b", "c">>, XLeft, j, F_SansItalic)

CodeLineKinds == {"Prose", "IndentedProse", "Def", "DefAtMargin", "ItalicFor", "Italic"}

CodeLineAt(kind, j) ==
    CASE kind = "Prose" -> ProseAt(j)
      [] kind = "IndentedProse" -> IndentedProseAt(j)
      [] kind = "Def" -> DefAt(j)
      [] kind = "DefAtMargin" -> DefAtMarginAt(j)
      [] kind = "ItalicFor" -> ItalicForAt(j)
      [] kind = "Italic" -> ItalicAt(j)

CodePage(kinds) == TextPage([j \in DOMAIN kinds |-> CodeLineAt(kinds[j], j)])

CodeSources ==
    {[opens |-> TRUE, thread_opens |-> TRUE, pages |-> <<CodePage(kinds)>>] :
        kinds \in SeqsUpTo(CodeLineKinds, MaxCodeLines) \ {<<>>}}

\* convert_file on one thread, CompactLines having returned
InitCode ==
    /\ OneFile
    /\ pc = "DetectCodeBlocks"
    /\ source \in CodeSources
    /\ num_threads = 1
    /\ ranges = Ranges(total_pages, ChunkSize(total_pages, num_threads))
    /\ chunk_pages = <<ExtractedPages(source)>>
    /\ next_idx = <<total_pages>>
    /\ globals \in calculate_global_stats(ExtractedPages(source))
    /\ pages = CompactLines(RemoveRepetitiveElements(ExtractedPages(source)), globals)
    /\ compacted = DOMAIN pages
    /\ stages_run = <<"CalculateGlobalStats", "RemoveRepetitiveElements", "CompactLines">>
    /\ final_markdown = <<>>

NextCode ==
    \/ RunDetectCodeBlocks
    \/ RunDetectTOC
    \/ RunDetectHeaders

SpecCode == InitCode /\ [][NextCode]_vars

----------------------------------------------------------------------------
(* Properties of DetectCodeBlocks, checked under SpecCode *)

CodeStage == pc = "DetectCodeBlocks" /\ pc' = "DetectTOC"

\* the line is a code candidate
IsCandidate(p, i) ==
    looks_like_code(pages[p].items[i].v, IndentThreshold(pages[p].items), globals)

\* the maximal run of consecutive candidate lines around line i
CandidateRun(p, i) ==
    {j \in LinesOf(p) : \A k \in Min(i, j)..Max(i, j) : IsCandidate(p, k)}

StrongIndicator(p, i) ==
    LET text == LineText(pages[p].items[i].v)
    IN  l_has_explicit_code_indicators(text, to_lowercase(text))

IsCodeAfter(p, i) == pages'[p].items[i].v.block_type = Code

\* C14, as stated: every line of a run of 2 or more candidate lines is Code
\* after the detector, and the line of a run of one is Code if and only if it
\* passes the strong-indicator test.
CandidateRunsMarked ==
    [][CodeStage =>
        \A p \in DOMAIN pages : \A i \in LinesOf(p) :
            IsCandidate(p, i) =>
                IF Cardinality(CandidateRun(p, i)) >= 2
                THEN IsCodeAfter(p, i)
                ELSE IsCodeAfter(p, i) <=> StrongIndicator(p, i)]_vars

\* the candidate grouping marks the line
MarkedByGrouping(p, i) ==
    /\ IsCandidate(p, i)
    /\ Cardinality(CandidateRun(p, i)) >= 2 \/ StrongIndicator(p, i)

\* an italic line the grouping has left alone
ItalicLeft(p, i) ==
    /\ ~MarkedByGrouping(p, i)
    /\ is_italic_line(pages[p].items[i].v, globals)

\* the line is one of 2 or more italic lines in a row, the lines marked by
\* the grouping not counted
InItalicGroup(p, i) ==
    /\ ItalicLeft(p, i)
    /\ \E j \in LinesOf(p) \ {i} :
           /\ ItalicLeft(p, j)
           /\ \A k \in Min(i, j)..Max(i, j) :
                  MarkedByGrouping(p, k) \/ ItalicLeft(p, k)

\* C14, with the italic rule: the line of a run of one candidate is Code if
\* and only if it passes the strong-indicator test or stands in a group of
\* italic lines; runs of 2 or more are Code in full.
CandidateRunsMarkedOrItalic ==
    [][CodeStage =>
        \A p \in DOMAIN pages : \A i \in LinesOf(p) :
            IsCodeAfter(p, i) <=> MarkedByGrouping(p, i) \/ InItalicGroup(p, i)]_vars

\* an indented line of prose alone stays a Paragraph and "def f():" alone
\* at the end of the page is Code
LoneCandidatesWitness ==
    /\ pc = "DetectTOC"
    /\ source.pages = <<CodePage(<<"IndentedProse", "Prose", "Def">>)>>
    /\ Len(pages[1].items) = 3
    /\ pages[1].items[1].v.block_type = Paragraph
    /\ pages[1].items[2].v.block_type = Paragraph
    /\ pages[1].items[3].v.block_type = Code

----------------------------------------------------------------------------
(* Properties of CompactLines' workers, checked under SpecHeaders *)

\* the pages CompactLines is given
PagesBeforeCompactLines == RemoveRepetitiveElements(ExtractedPages(source))

\* the pages compacted one after another, from position p on
RECURSIVE CompactInIndexOrder(_, _, _)
CompactInIndexOrder(ps, gs, p) ==
    IF p > Len(ps) THEN ps
    ELSE CompactInIndexOrder([ps EXCEPT ![p] = CompactPage(ps[p], gs)], gs, p + 1)

\* C17: while the workers run, every page a worker has finished is what
\* compacting the pages in index order gives for it and every other page is
\* as CompactLines was given it; once for_each has returned, the Document is
\* the one compacted in index order.
CompactLinesOrderIndependent ==
    LET in_order == CompactInIndexOrder(PagesBeforeCompactLines, globals, 1) IN
    /\ pc = "CompactLines.for_each" =>
           \A p \in DOMAIN pages :
               pages[p] = IF p \in compacted THEN in_order[p]
                          ELSE PagesBeforeCompactLines[p]
    /\ pc = "DetectCodeBlocks" => pages = in_order

\* the worker of page 2 has finished before the worker of page 1 has run,
\* and compaction changes both pages
LastPageFirstWitness ==
    /\ pc = "CompactLines.for_each"
    /\ Len(pages) = 2
    /\ compacted = {2}
    /\ pages[1] # CompactPage(pages[1], globals)
    /\ pages[2] # PagesBeforeCompactLines[2]

----------------------------------------------------------------------------
(* processor.rs: run over several files *)

MaxFiles == 3

\* a file, by what converting it meets: whether the main thread and the
\* extraction workers can open it, how many pages it has, and whether its
\* Markdown can be written
GoodFile == [opens |-> TRUE, thread_opens |-> TRUE, page_count |-> 1, writes |-> TRUE]

UnopenableFile == [GoodFile EXCEPT !.opens = FALSE]

WorkerUnopenableFile == [GoodFile EXCEPT !.thread_opens = FALSE]

EmptyFile == [GoodFile EXCEPT !.page_count = 0]

UnwritableFile == [GoodFile EXCEPT !.writes = FALSE]

FileKinds == {GoodFile, UnopenableFile, WorkerUnopenableFile, EmptyFile, UnwritableFile}

\* how convert_file ends on the file: the ? of the first load returns an
\* Err, step_by(0) and the workers' expect panic
convert_file(file) ==
    IF ~file.opens THEN "Err"
    ELSE IF ChunkSize(file.page_count, 1) = 0 THEN "Panic"
    ELSE IF ~file.thread_opens THEN "Panic"
    ELSE "Ok"

process_single_file(file) ==
    IF convert_file(file) # "Ok" THEN convert_file(file)
    ELSE IF ~file.writes THEN "Err"
    ELSE "Ok"

\* run has collected the files and is about to map over them; no call of
\* convert_file is looked into
InitFiles ==
    /\ files \in SeqsUpTo(FileKinds, MaxFiles)
    /\ results = [i \in DOMAIN files |-> "none"]
    /\ reported = {}
    /\ exit_code = "running"
    /\ pc = "run"
    /\ source = [opens |-> TRUE, thread_opens |-> TRUE, pages |-> <<>>]
    /\ num_threads = 1
    /\ ranges = <<>>
    /\ chunk_pages = <<>>
    /\ next_idx = <<>>
    /\ pages = <<>>
    /\ globals = DefaultGlobals
    /\ compacted = {}
    /\ stages_run = <<>>
    /\ final_markdown = <<>>

\* processor.rs:39-51: the closure of the map on file i, run by some rayon
\* worker
ProcessSingleFile(i) ==
    /\ exit_code = "running"
    /\ i \in DOMAIN files
    /\ results[i] = "none"
    /\ results' = [results EXCEPT ![i] = process_single_file(files[i])]
    /\ UNCHANGED <<files, reported, exit_code, convert_vars>>

\* the panic of a closure leaves the map: rayon runs what the other workers
\* hold, a worker drops the files that follow the panic in its share, and
\* the panic unwinds through run and main
PanicUnwinds ==
    /\ exit_code = "running"
    /\ \E i \in DOMAIN files : results[i] = "Panic"
    /\ \A j \in DOMAIN files :
           results[j] = "none" => \E i \in 1..(j - 1) : results[i] = "Panic"
    /\ exit_code' = "101"
    /\ UNCHANGED <<files, results, reported, convert_vars>>

\* processor.rs:53-66, and :25-28 when no file was collected
ReportErrors ==
    /\ exit_code = "running"
    /\ \A i \in DOMAIN files : results[i] \in {"Ok", "Err"}
    /\ reported' = {i \in DOMAIN files : results[i] = "Err"}
    /\ exit_code' = IF reported' # {} THEN "1" ELSE "0"
    /\ UNCHANGED <<files, results, convert_vars>>

NextFiles ==
    \/ \E i \in DOMAIN files : ProcessSingleFile(i)
    \/ PanicUnwinds
    \/ ReportErrors

SpecFiles == InitFiles /\ [][NextFiles]_vars

----------------------------------------------------------------------------
(* Properties of run, checked under SpecFiles *)

RunEnded == exit_code # "running"

FailingFiles == {i \in DOMAIN files : process_single_file(files[i]) # "Ok"}

\* C18, as stated: when the run has ended every file has been attempted,
\* every file whose conversion returned an error has its "Error:" line, and
\* the exit status is a failure if and only if some file failed.
FileFailuresIsolated ==
    RunEnded =>
        /\ \A i \in DOMAIN files : results[i] = process_single_file(files[i])
        /\ \A i \in DOMAIN files : results[i] = "Err" => i \in reported
        /\ exit_code # "0" <=> FailingFiles # {}

\* C18, what the code does: the statement holds for the runs in which no
\* conversion panics; a panic ends the run with no "Error:" line at all
ReturnedErrorsIsolated ==
    RunEnded =>
        IF \E i \in DOMAIN files : process_single_file(files[i]) = "Panic"
        THEN exit_code = "101" /\ reported = {}
        ELSE /\ \A i \in DOMAIN files : results[i] = process_single_file(files[i])
             /\ reported = FailingFiles
             /\ exit_code = IF FailingFiles # {} THEN "1" ELSE "0"

\* a run of three files of which the first cannot be opened and the third
\* cannot be written: the second is converted, both failures are logged
ReturnedErrorsWitness ==
    /\ files = <<UnopenableFile, GoodFile, UnwritableFile>>
    /\ results = <<"Err", "Ok", "Err">>
    /\ reported = {1, 3}
    /\ exit_code = "1"

----------------------------------------------------------------------------
(* CompactLines on pages whose second fragment is some way below the first *)

\* the vertical distances tried from fragment A down to fragment B: 0, 5,
\* 8.8, 8.8005, 10, 12, 12.0005, 14, 16, 16.0005, 20, and 10 upwards
Drops ==
    {0, U(5), U(8) + 1600, U(8) + 1601, U(10), U(12), U(12) + 1, U(14), U(16),
     U(16) + 1, U(20), -U(10)}

\* the font sizes tried for fragment A
FirstSizes == {0, U(11), U(20)}

\* the distances tried between the body lines
BodyPitches == {U(12), U(14)}

\* fragment A, fragment B far to its right and drop below it, and three
\* body lines, pitch apart, below B and far to its right
GroupPage(a_size, drop, pitch) ==
    TextPage(<<TextItem(<<"a", "b", "c">>, U(100), U(700), U(20), U(11), F_Sans, a_size),
               TextItem(<<"d", "e", "f">>, U(300), U(700) - drop, U(20), U(11), F_Sans, U(11)),
               TextItem(<<"b", "o", "d", "y">>, U(500), U(700) - drop - pitch,
                        U(40), U(11), F_Sans, U(11)),
               TextItem(<<"b", "o", "d", "y">>, U(500), U(700) - drop - 2 * pitch,
                        U(40), U(11), F_Sans, U(11)),
               TextItem(<<"b", "o", "d", "y">>, U(500), U(700) - drop - 3 * pitch,
                        U(40), U(11), F_Sans, U(11))>>)

GroupPages ==
    {GroupPage(a_size, drop, pitch) :
        a_size \in FirstSizes, drop \in Drops, pitch \in BodyPitches}

\* convert_file on one thread, about to call CompactLines on a 1-page document
InitGroup ==
    /\ OneFile
    /\ pc = "CompactLines"
    /\ \E page \in GroupPages :
           source = [opens |-> TRUE, thread_opens |-> TRUE, pages |-> <<page>>]
    /\ num_threads = 1
    /\ ranges = Ranges(total_pages, ChunkSize(total_pages, num_threads))
    /\ pages = ExtractedPages(source)
    /\ chunk_pages = <<pages>>
    /\ next_idx = <<total_pages>>
    /\ globals \in calculate_global_stats(pages)
    /\ compacted = {}
    /\ stages_run = <<"CalculateGlobalStats", "RemoveRepetitiveElements">>
    /\ final_markdown = <<>>

NextGroup ==
    \/ StartCompactLines
    \/ \E p \in DOMAIN pages : CompactLinesPage(p)
    \/ FinishCompactLines

SpecGroup == InitGroup /\ [][NextGroup]_vars

----------------------------------------------------------------------------
(* Properties of group_items_by_line, checked under SpecGroup *)

VerticalDistance == Abs(FragmentA.y - FragmentB.y)

\* the page's first line has been closed before fragment B: no Line holds
\* the texts of both fragments
NewLineAtB ==
    ~\E i \in DOMAIN pages[1].items :
        LET texts == {pages[1].items[i].v.items[k].text :
                         k \in DOMAIN pages[1].items[i].v.items}
        IN  FragmentA.text \in texts /\ FragmentB.text \in texts

PageGrouped == compacted = {1}

\* C19, as stated: a new line starts at fragment B exactly when its vertical
\* distance from fragment A, the first of the current line, exceeds the
\* larger of 0.8 times A's font size and the dominant line pitch.
NewLineBeyondLargerTolerance ==
    PageGrouped =>
        (NewLineAtB <=>
            /\ 10 * VerticalDistance > 8 * FragmentA.font_size
            /\ VerticalDistance > globals.most_used_distance)

\* C19, amended: ... exceeds 0.8 times A's font size, or, when A's font size
\* is 0, exceeds the dominant line pitch.
NewLineBeyondFontTolerance ==
    PageGrouped =>
        (NewLineAtB <=>
            IF FragmentA.font_size > 0
            THEN 10 * VerticalDistance > 8 * FragmentA.font_size
            ELSE VerticalDistance > globals.most_used_distance)

\* fragment B is 10 below fragment A of size 11 and the pitch is 14: B
\* starts a new line
NewLineWithinPitchWitness ==
    /\ PageGrouped
    /\ source.pages[1] = GroupPage(U(11), U(10), U(14))
    /\ globals.most_used_distance = U(14)
    /\ NewLineAtB

----------------------------------------------------------------------------
(* CalculateGlobalStats on pages with large fragments of few letters *)

MaxSizedFrags == 3

F_Serif == <<"S", "e", "r", "i", "f">>

F_Mono == <<"M", "o", "n", "o">>

F_Symbol == <<"S", "y", "m", "b", "o", "l">>

\* fonts whose names carry no style
PlainFonts == {F_Sans, F_Serif, F_Mono}

\* the fragments a page is made of: body text, two titles of three letters
\* in fonts of their own, a larger word of two letters, and a still larger
\* word in a symbol font
SizedKinds ==
    {[text |-> <<"a", "b", "c", "d">>, font |-> F_Sans, size |-> U(11)],
     [text |-> <<"B", "i", "g">>, font |-> F_Serif, size |-> U(24)],
     [text |-> <<"T", "o", "p">>, font |-> F_Mono, size |-> U(24)],
     [text |-> <<"A", "I">>, font |-> F_Serif, size |-> U(30)],
     [text |-> <<"s", "u", "m">>, font |-> F_Symbol, size |-> U(36)]}

\* one fragment per line, each 40 below the one before
SizedPage(kinds) ==
    TextPage([j \in DOMAIN kinds |->
        TextItem(kinds[j].text, XLeft, U(700) - (j - 1) * U(40), U(40),
                 kinds[j].size, kinds[j].font, kinds[j].size)])

SizedSources ==
    {[opens |-> TRUE, thread_opens |-> TRUE, pages |-> <<SizedPage(kinds)>>] :
        kinds \in SeqsUpTo(SizedKinds, MaxSizedFrags) \ {<<>>}}

\* convert_file on one thread, about to call CalculateGlobalStats
InitSized ==
    /\ OneFile
    /\ pc = "CalculateGlobalStats"
    /\ source \in SizedSources
    /\ num_threads = 1
    /\ ranges = Ranges(total_pages, ChunkSize(total_pages, num_threads))
    /\ pages = ExtractedPages(source)
    /\ chunk_pages = <<pages>>
    /\ next_idx = <<total_pages>>
    /\ globals = DefaultGlobals
    /\ compacted = {}
    /\ stages_run = <<>>
    /\ final_markdown = <<>>

NextSized == RunCalculateGlobalStats

SpecSized == InitSized /\ [][NextSized]_vars

----------------------------------------------------------------------------
(* Properties of the maximum height, checked under SpecSized *)

\* the fragments of the document's only page, in item order
PageFragments == PageTextItems(pages[1])

\* the font is treated as the max-height font: its name carries no style, it
\* is not the dominant font, and its fragments are set in bold
MadeBold(font) ==
    /\ font \in DOMAIN globals.font_to_format
    /\ globals.font_to_format[font] = "Bold"

\* fragment i is the first of the fragments in among with the largest size
FirstLargest(i, among) ==
    /\ i \in among
    /\ \A j \in among : PageFragments[j].font_size <= PageFragments[i].font_size
    /\ \A j \in among : j < i => PageFragments[j].font_size < PageFragments[i].font_size

\* the max-height font is the font of the first largest fragment in among,
\* as far as the font-to-emphasis map shows it
MaxHeightFontAmong(among) ==
    \A i \in among :
        LET font == PageFragments[i].font IN
        font \in PlainFonts /\ font # globals.most_used_font =>
            (MadeBold(font) <=>
                \E k \in among : FirstLargest(k, among) /\ PageFragments[k].font = font)

\* C20, as stated: the maximum height is the largest font size of all
\* fragments and the max-height font is the font of the fragment of that
\* size.
MaxHeightIsLargestFontSize ==
    Profiled =>
        /\ \E i \in DOMAIN PageFragments :
               /\ FirstLargest(i, DOMAIN PageFragments)
               /\ PageFragments[i].font_size = globals.max_height
        /\ MaxHeightFontAmong(DOMAIN PageFragments)

\* C20, what the code does: the maximum is taken over the fragments that
\* vote (3 letters or more, font not a math or symbol font), and the font is
\* that of the first of them with the largest size; with no such fragment
\* the maximum height is 0.
MaxHeightIsLargestVotingSize ==
    Profiled =>
        LET voting == {i \in DOMAIN PageFragments : Votes(PageFragments[i])} IN
        /\ IF voting = {} THEN globals.max_height = 0
           ELSE \E i \in voting :
                    /\ FirstLargest(i, voting)
                    /\ PageFragments[i].font_size = globals.max_height
        /\ MaxHeightFontAmong(voting)

\* the body line, "Big" of size 24 and "AI" of size 30 in the same font:
\* the maximum height is 24, and that font's fragments are set in bold
MaxHeightVotingWitness ==
    /\ Profiled
    /\ Len(PageFragments) = 3
    /\ PageFragments[1].text = <<"a", "b", "c", "d">>
    /\ PageFragments[2].text = <<"B", "i", "g">>
    /\ PageFragments[3].text = <<"A", "I">>
    /\ globals.max_height = U(24)
    /\ MadeBold(F_Serif)

----------------------------------------------------------------------------
(* CalculateGlobalStats on pages set in styled fonts *)

MaxStyledFrags == 3

F_SansIt == <<"S", "a", "n", "s", "-", "I", "t">>

F_SansBoldItalic ==
    <<"S", "a", "n", "s", "-", "B", "o", "l", "d", "I", "t", "a", "l", "i", "c">>

F_SerifOblique == <<"S", "e", "r", "i", "f", "-", "O", "b", "l", "i", "q", "u", "e">>

\* the fragments a page is made of: body text, a word and a two-letter word
\* in bold, a word in italics, a word in bold italics, and a large word in
\* an oblique font
StyledKinds ==
    {[text |-> <<"a", "b", "c", "d">>, font |-> F_Sans, size |-> U(11)],
     [text |-> <<"T", "o", "p">>, font |-> F_SansBold, size |-> U(11)],
     [text |-> <<"N", "o">>, font |-> F_SansBold, size |-> U(11)],
     [text |-> <<"a", "b", "c">>, font |-> F_SansIt, size |-> U(11)],
     [text |-> <<"a", "b", "c", "d">>, font |-> F_SansBoldItalic, size |-> U(11)],
     [text |-> <<"B", "i", "g">>, font |-> F_SerifOblique, size |-> U(24)]}

StyledSources ==
    {[opens |-> TRUE, thread_opens |-> TRUE, pages |-> <<SizedPage(kinds)>>] :
        kinds \in SeqsUpTo(StyledKinds, MaxStyledFrags) \ {<<>>}}

\* convert_file on one thread, about to call CalculateGlobalStats
InitStyled ==
    /\ OneFile
    /\ pc = "CalculateGlobalStats"
    /\ source \in StyledSources
    /\ num_threads = 1
    /\ ranges = Ranges(total_pages, ChunkSize(total_pages, num_threads))
    /\ pages = ExtractedPages(source)
    /\ chunk_pages = <<pages>>
    /\ next_idx = <<total_pages>>
    /\ globals = DefaultGlobals
    /\ compacted = {}
    /\ stages_run = <<>>
    /\ final_markdown = <<>>

NextStyled == RunCalculateGlobalStats

SpecStyled == InitStyled /\ [][NextStyled]_vars

----------------------------------------------------------------------------
(* Properties of the font-to-emphasis map, checked under SpecStyled *)

BoldNamed(font) ==
    LET lower_name == to_lowercase(font)
    IN  contains(lower_name, FontWords.bold) \/ contains(lower_name, FontWords.bd)

ItalicNamed(font) ==
    LET lower_name == to_lowercase(font)
    IN  \/ contains(lower_name, FontWords.italic)
        \/ contains(lower_name, FontWords.oblique)
        \/ contains(lower_name, FontWords.ital)
        \/ contains(lower_name, FontWords.it)

VotingFragments == {i \in DOMAIN PageFragments : Votes(PageFragments[i])}

\* the font of the first of the largest voting fragments
IsMaxHeightFont(font) ==
    \E k \in VotingFragments :
        FirstLargest(k, VotingFragments) /\ PageFragments[k].font = font

\* the emphasis the font's name and height call for, "None" for no entry
EmphasisCalledFor(font) ==
    IF font = globals.most_used_font THEN NoFormat
    ELSE IF BoldNamed(font) /\ ItalicNamed(font) THEN "BoldItalic"
    ELSE IF BoldNamed(font) \/ IsMaxHeightFont(font) THEN "Bold"
    ELSE IF ItalicNamed(font) THEN "Italic"
    ELSE NoFormat

EmphasisOf(font) ==
    IF font \in DOMAIN globals.font_to_format THEN globals.font_to_format[font]
    ELSE NoFormat

\* C21, as stated: every font of the document has the emphasis its name
\* and height call for, and the dominant font has none.
EveryFontClassified ==
    Profiled =>
        \A i \in DOMAIN PageFragments :
            EmphasisOf(PageFragments[i].font) = EmphasisCalledFor(PageFragments[i].font)

\* C21, what the code does: the same for the fonts of the fragments that
\* vote; a font none of whose fragments votes has no entry, whatever its
\* name.
EveryVotingFontClassified ==
    Profiled =>
        \A i \in DOMAIN PageFragments :
            LET font == PageFragments[i].font IN
            IF \E k \in VotingFragments : PageFragments[k].font = font
            THEN EmphasisOf(font) = EmphasisCalledFor(font)
            ELSE EmphasisOf(font) = NoFormat

\* body text, "Top" in bold and the large oblique "Big": bold is Bold, the
\* oblique font is Bold for its height, the body font has no entry
VotingFontsWitness ==
    /\ Profiled
    /\ Len(PageFragments) = 3
    /\ globals.most_used_font = F_Sans
    /\ EmphasisOf(F_Sans) = NoFormat
    /\ EmphasisOf(F_SansBold) = "Bold"
    /\ EmphasisOf(F_SerifOblique) = "Bold"

----------------------------------------------------------------------------
(* DetectCodeBlocks on pages with large lines and bold lines *)

Str_def == <<"d", "e", "f", " ", "f", "(", ")", ":">>

SizedCodeFrag(text, x, j, font, size) ==
    TextItem(text, x, LineY(j), U(40), size, font, size)

\* the lines a page is made of: prose, "def f():" indented in size 14, an
\* italic word in size 14, "def f():" indented in bold, an italic word and
\* "def f():" indented in the body size
HeadCodeLineKinds == {"Prose", "BigDef", "BigItalic", "BoldDef", "Italic", "Def"}

HeadCodeLineAt(kind, j) ==
    CASE kind = "Prose" -> ProseAt(j)
      [] kind = "BigDef" -> SizedCodeFrag(Str_def, XIndented, j, F_Sans, U(14))
      [] kind = "BigItalic" ->
             SizedCodeFrag(<<"a", "b", "c">>, XLeft, j, F_SansItalic, U(14))
      [] kind = "BoldDef" -> SizedCodeFrag(Str_def, XIndented, j, F_SansBold, U(11))
      [] kind = "Italic" -> ItalicAt(j)
      [] kind = "Def" -> DefAt(j)

HeadCodePage(kinds) == TextPage([j \in DOMAIN kinds |-> HeadCodeLineAt(kinds[j], j)])

HeadCodeSources ==
    {[opens |-> TRUE, thread_opens |-> TRUE, pages |-> <<HeadCodePage(kinds)>>] :
        kinds \in SeqsUpTo(HeadCodeLineKinds, MaxCodeLines) \ {<<>>}}

\* convert_file on one thread, CompactLines having returned
InitHeadCode ==
    /\ OneFile
    /\ pc = "DetectCodeBlocks"
    /\ source \in HeadCodeSources
    /\ num_threads = 1
    /\ ranges = Ranges(total_pages, ChunkSize(total_pages, num_threads))
    /\ chunk_pages = <<ExtractedPages(source)>>
    /\ next_idx = <<total_pages>>
    /\ globals \in calculate_global_stats(ExtractedPages(source))
    /\ pages = CompactLines(RemoveRepetitiveElements(ExtractedPages(source)), globals)
    /\ compacted = DOMAIN pages
    /\ stages_run = <<"CalculateGlobalStats", "RemoveRepetitiveElements", "CompactLines">>
    /\ final_markdown = <<>>

NextHeadCode ==
    \/ RunDetectCodeBlocks
    \/ RunDetectTOC
    \/ RunDetectHeaders

SpecHeadCode == InitHeadCode /\ [][NextHeadCode]_vars

----------------------------------------------------------------------------
(* Properties of the detector's exclusions, checked under SpecHeadCode *)

\* the line is more than 1 unit higher than the dominant body size
HeightBasedHeading(p, i) ==
    pages[p].items[i].v.height > globals.most_used_height + U(1)

\* the line's text is wrapped in bold markup as a whole
BoldWrapped(p, i) ==
    LET text == trim(LineText(pages[p].items[i].v))
    IN  starts_with(text, <<"*", "*">>) /\ ends_with(text, <<"*", "*">>)

\* C22: after the detector no height-based heading is Code, and a line
\* wrapped in bold markup is Code only through the italic rule, as one of 2
\* or more lines in a row that begin and end with an emphasis marker.
HeadingsAndBoldNotCode ==
    [][CodeStage =>
        \A p \in DOMAIN pages : \A i \in LinesOf(p) :
            /\ HeightBasedHeading(p, i) => ~IsCodeAfter(p, i)
            /\ BoldWrapped(p, i) /\ IsCodeAfter(p, i) => InItalicGroup(p, i)]_vars

\* prose, an indented "def f():" of size 14 and an indented "def f():" in
\* bold: both would be candidates by their text, and both stay Paragraph
HeadingNotCodeWitness ==
    /\ pc = "DetectTOC"
    /\ source.pages = <<HeadCodePage(<<"Prose", "BigDef", "BoldDef">>)>>
    /\ globals.most_used_height = U(11)
    /\ Len(pages[1].items) = 3
    /\ pages[1].items[2].v.height = U(14)
    /\ pages[1].items[2].v.block_type = Paragraph
    /\ LineText(pages[1].items[3].v) = <<"*", "*">> \o Str_def \o <<"*", "*">>
    /\ pages[1].items[3].v.block_type = Paragraph

----------------------------------------------------------------------------
(* DetectTOC on pages with several lines that have no page number *)

\* the texts of the lines without a page number, by the letter that stands
\* for them in a layout
PlainLineTexts ==
    [H |-> <<"I", "n", "d", "e", "x">>,
     P |-> <<"P", "a", "r", "t">>,
     Q |-> <<"M", "o", "r", "e">>,
     S |-> <<"S", "e", "c">>,
     T |-> <<"T", "a", "b", "l", "e", " ", "o", "f", " ", "C", "o", "n", "t", "e", "n", "t", "s">>]

\* line j of a layout: "E" is an entry, "_" leaves the line empty, the other
\* letters are lines without a page number
LayoutLineAt(layout, j) ==
    IF layout[j] = "E" THEN EntryAt(XLeft, j)
    ELSE IF layout[j] = "_" THEN <<>>
    ELSE <<TocFrag(PlainLineTexts[layout[j]], XLeft, LineY(j))>>

LayoutPage(layout) ==
    TextPage(Flatten([j \in DOMAIN layout |-> LayoutLineAt(layout, j)]))

Entries(n) == [j \in 1..n |-> "E"]

\* the layouts of a document's first page
FirstLayouts ==
    {<<"H">> \o Entries(8),
     Entries(4) \o <<"H">> \o Entries(4),
     Entries(8),
     <<"H">> \o Entries(7) \o <<"P">>,
     <<"H", "P">> \o Entries(8),
     <<"H", "P", "_">> \o Entries(8),
     <<"H">> \o Entries(3) \o <<"P", "Q">> \o Entries(7),
     <<"H">> \o Entries(10) \o <<"P", "Q">>,
     <<"H", "S", "Q">> \o Entries(10)}

\* the layouts of a second page
SecondLayouts ==
    {<<"H">> \o Entries(8),
     <<"P", "_">> \o Entries(8),
     <<"T">> \o Entries(8),
     <<"H", "P", "_">> \o Entries(8)}

LayoutSources ==
    {[opens |-> TRUE, thread_opens |-> TRUE, pages |-> ps] :
        ps \in {<<LayoutPage(a)>> : a \in FirstLayouts \cup SecondLayouts}
               \cup {<<LayoutPage(a), LayoutPage(b)>> :
                        a \in FirstLayouts, b \in SecondLayouts}}

\* convert_file on one thread, CompactLines having returned
InitLayout ==
    /\ OneFile
    /\ pc = "DetectCodeBlocks"
    /\ source \in LayoutSources
    /\ num_threads = 1
    /\ ranges = Ranges(total_pages, ChunkSize(total_pages, num_threads))
    /\ chunk_pages = <<ExtractedPages(source)>>
    /\ next_idx = <<total_pages>>
    /\ globals \in calculate_global_stats(ExtractedPages(source))
    /\ pages = CompactLines(RemoveRepetitiveElements(ExtractedPages(source)), globals)
    /\ compacted = DOMAIN pages
    /\ stages_run = <<"CalculateGlobalStats", "RemoveRepetitiveElements", "CompactLines">>
    /\ final_markdown = <<>>

NextLayout ==
    \/ RunDetectCodeBlocks
    \/ RunDetectTOC
    \/ RunDetectHeaders

SpecLayout == InitLayout /\ [][NextLayout]_vars


----------------------------------------------------------------------------
(* Properties of the item list of a TOC page, checked under SpecLayout *)

\* the lines of page p that do not end in a page number
PlainLinesOf(p) == LinesOf(p) \ NumberedLinesOf(p)

\* the first line of page p that does not end in a page number, 0 for none
FirstPlainLine(p) ==
    IF PlainLinesOf(p) = {} THEN 0
    ELSE CHOOSE i \in PlainLinesOf(p) : \A j \in PlainLinesOf(p) : i <= j

PlainText(p, i) == trim(LineText(pages[p].items[i].v))

\* the text of line i of page p is part of the text of a TOC entry that
\* DetectTOC leaves on the page
InEntryText(p, i) ==
    \E n \in TocItemsAfter(p) :
        contains(LineText(pages'[p].items[n].v), PlainText(p, i))

\* the item list DetectTOC leaves on page p is made of the lines `kept`, in
\* their original order: a line ending in a page number as a TocItem, any
\* other line as it was
ListIsExactly(p, kept) ==
    LET order == SelectSeq([i \in DOMAIN pages[p].items |-> i],
                           LAMBDA i : i \in kept)
    IN  /\ Len(pages'[p].items) = Len(order)
        /\ \A n \in DOMAIN order :
               IF order[n] \in NumberedLinesOf(p)
               THEN /\ pages'[p].items[n].kind = "LineItem"
                    /\ pages'[p].items[n].v.block_type.tag = "TocItem"
               ELSE pages'[p].items[n] = pages[p].items[order[n]]

\* C23, as stated: on a TOC page the final item list consists, in original
\* order, of exactly every TOC entry, the first line not ending in a digit,
\* and every other line not ending in a digit whose text is not duplicated
\* by the text of a TOC entry.
TocListAsStated ==
    [][pc = "DetectTOC" =>
        \A p \in DOMAIN pages :
            QualifiesAsToc(p) =>
                ListIsExactly(p,
                    NumberedLinesOf(p) \cup {FirstPlainLine(p)}
                    \cup {i \in PlainLinesOf(p) : ~InEntryText(p, i)})]_vars

\* line i of page p has been marked unknown by the scan: it is not the first
\* line without a page number, and either another line without a page number
\* comes after it, or the line after it ends in a page number and stands
\* more than 1.5 times the dominant pitch away
MarkedUnknown(p, i) ==
    /\ i \in PlainLinesOf(p) \ {FirstPlainLine(p)}
    /\ \/ \E j \in PlainLinesOf(p) : j > i
       \/ /\ i + 1 \in NumberedLinesOf(p)
          /\ 10 * Abs(pages[p].items[i].v.y - pages[p].items[i + 1].v.y)
                 > 15 * globals.most_used_distance

\* the first TOC page of the document, 0 for none
FirstTocPage ==
    LET toc == {p \in DOMAIN pages : QualifiesAsToc(p)}
    IN  IF toc = {} THEN 0 ELSE CHOOSE p \in toc : \A q \in toc : p <= q

\* the texts of the unknown lines the first TOC page keeps
LearnedTitles ==
    IF FirstTocPage = 0 THEN {}
    ELSE {PlainText(FirstTocPage, i) :
             i \in {k \in PlainLinesOf(FirstTocPage) :
                       /\ MarkedUnknown(FirstTocPage, k)
                       /\ PlainText(FirstTocPage, k) # <<>>
                       /\ ~InEntryText(FirstTocPage, k)}}

\* on a TOC page after the first, line i repeats a title learned on the
\* first TOC page or says "table of contents"
RepeatedTitle(p, i) ==
    /\ p # FirstTocPage
    /\ \/ \E h \in LearnedTitles :
              PlainText(p, i) = h \/ (Len(h) > 3 /\ starts_with(PlainText(p, i), h))
       \/ contains(to_lowercase(PlainText(p, i)), Str_table_of_contents)

\* the headline the second loop keeps: the first line without a page number
\* that is not a repeated title, 0 for none
KeptHeadline(p) ==
    LET hits == {i \in PlainLinesOf(p) : ~RepeatedTitle(p, i)}
    IN  IF hits = {} THEN 0 ELSE CHOOSE i \in hits : \A j \in hits : i <= j

\* C23, what the code does: the final item list of a TOC page consists, in
\* original order, of every TOC entry, the first line without a page number
\* that is not a repeated title, and every line marked unknown whose text is
\* neither part of a TOC entry's text nor a repeated title.  A line without
\* a page number that was not marked unknown is discarded with the rest.
TocListAsBuilt ==
    [][pc = "DetectTOC" =>
        \A p \in DOMAIN pages :
            QualifiesAsToc(p) =>
                ListIsExactly(p,
                    NumberedLinesOf(p) \cup {KeptHeadline(p)}
                    \cup {i \in PlainLinesOf(p) :
                             /\ MarkedUnknown(p, i)
                             /\ ~InEntryText(p, i)
                             /\ ~RepeatedTitle(p, i)})]_vars

\* the page of a headline, ten entries and two more lines without a page
\* number at its end: the list keeps the headline, the entries and the first
\* of the two lines; the last line of the page is not in it
TocListWitness ==
    /\ TocDetected
    /\ source.pages = <<LayoutPage(<<"H">> \o Entries(10) \o <<"P", "Q">>)>>
    /\ Len(pages[1].items) = 12
    /\ LineText(pages[1].items[1].v) = PlainLineTexts.H
    /\ LineText(pages[1].items[12].v) = PlainLineTexts.P
    /\ \A n \in 2..11 : pages[1].items[n].v.block_type.tag = "TocItem"


\* line i of page p is in the item list DetectTOC leaves, as it was
Retained(p, i) ==
    \E n \in DOMAIN pages'[p].items : pages'[p].items[n] = pages[p].items[i]

\* line i of page p is accounted for: retained, or merged into a TOC entry
\* or duplicated by one (its text is part of the entry's text), or a
\* repeated title
AccountedFor(p, i) ==
    \/ Retained(p, i)
    \/ InEntryText(p, i)
    \/ RepeatedTitle(p, i)

\* C30, as stated: on a TOC page every line that does not end in a digit is
\* retained, merged into the TOC entry that follows it, or suppressed as a
\* duplicate or repeated title, also when it is the last line of the page or
\* only lines not ending in a digit follow it.
NoPlainLineLostSilently ==
    [][pc = "DetectTOC" =>
        \A p \in DOMAIN pages :
            QualifiesAsToc(p) =>
                \A i \in PlainLinesOf(p) : AccountedFor(p, i)]_vars

\* line i of page p is the page's last line not ending in a digit, it is not
\* the first such line, and no line ending in a digit comes after it
TrailingPlainLine(p, i) ==
    /\ i \in PlainLinesOf(p) \ {FirstPlainLine(p)}
    /\ \A j \in LinesOf(p) : j <= i

\* C30, what the code does: on a TOC page every line that does not end in a
\* digit is accounted for, except the one that closes the page after the
\* page's first such line: it waits for an entry to be merged into or for a
\* later line to mark it unknown, neither comes, and it is not in the list.
OnlyTrailingPlainLineLost ==
    [][pc = "DetectTOC" =>
        \A p \in DOMAIN pages :
            QualifiesAsToc(p) =>
                \A i \in PlainLinesOf(p) :
                    AccountedFor(p, i) \/ TrailingPlainLine(p, i)]_vars

\* the page of a headline, seven entries and a last line "Part": after
\* DetectTOC the page has the headline and the entries, and "Part" is in no
\* line of it
TrailingLineLostWitness ==
    /\ TocDetected
    /\ source.pages = <<LayoutPage(<<"H">> \o Entries(7) \o <<"P">>)>>
    /\ Len(pages[1].items) = 8
    /\ \A n \in DOMAIN pages[1].items :
           ~contains(LineText(pages[1].items[n].v), PlainLineTexts.P)


----------------------------------------------------------------------------
(* DetectHeaders on documents with up to seven sizes above the body size *)

\* the sizes of the large lines, descending
LadderSizes == <<40, 36, 32, 28, 24, 20, 16>>

\* the k-th large line: "Sec" in size LadderSizes[k], on its own line
LadderLine(k) ==
    HeadLine(<<"S", "e", "c">>, U(760) - k * U(60), F_Sans, U(LadderSizes[k]))

BodyLineAt(y) == HeadLine(<<"a", "b", "c", "d", "e", "f">>, y, F_Sans, U(11))

\* a page with the large lines ks and two body lines
LadderPage(ks) ==
    TextPage(Flatten([k \in 1..Len(LadderSizes) |->
                         IF k \in ks THEN <<LadderLine(k)>> ELSE <<>>])
             \o <<BodyLineAt(U(200)), BodyLineAt(U(100))>>)

\* a page whose one large line is "No" in the largest size: two letters, so
\* the line has no vote in the statistics and is not the maximum height
ShortTopPage ==
    TextPage(<<HeadLine(<<"N", "o">>, U(700), F_Sans, U(LadderSizes[1])),
               BodyLineAt(U(200)), BodyLineAt(U(100))>>)

\* two pages: the first with none, the largest or the two largest lines, or
\* with the short line; the second with any of the other lines
LadderSources ==
    {[opens |-> TRUE, thread_opens |-> TRUE, pages |-> <<first, LadderPage(b)>>] :
        first \in {LadderPage({}), LadderPage({1}), LadderPage({1, 2}), ShortTopPage},
        b \in SUBSET (2..Len(LadderSizes))}

\* convert_file on one thread, CompactLines having returned
InitLadder ==
    /\ OneFile
    /\ pc = "DetectCodeBlocks"
    /\ source \in LadderSources
    /\ num_threads = 1
    /\ ranges = Ranges(total_pages, ChunkSize(total_pages, num_threads))
    /\ chunk_pages = <<ExtractedPages(source)>>
    /\ next_idx = <<total_pages>>
    /\ globals \in calculate_global_stats(ExtractedPages(source))
    /\ pages = CompactLines(RemoveRepetitiveElements(ExtractedPages(source)), globals)
    /\ compacted = DOMAIN pages
    /\ stages_run = <<"CalculateGlobalStats", "RemoveRepetitiveElements", "CompactLines">>
    /\ final_markdown = <<>>

NextLadder ==
    \/ RunDetectCodeBlocks
    \/ RunDetectTOC
    \/ RunDetectHeaders

SpecLadder == InitLadder /\ [][NextLadder]_vars


----------------------------------------------------------------------------
(* Properties of the heading ladder, checked under SpecLadder *)

\* the global heading ladder: the sizes of the lines not shaped like a list
\* item that are above 1.01 times the dominant size, descending (the sizes of
\* these documents are 4 apart, so each is a ladder position of its own)
HeadingLadder ==
    SortedDescending({U(LadderSizes[k]) : k \in
        {j \in DOMAIN LadderSizes :
            /\ HasPlainLineOfSize(U(LadderSizes[j]))
            /\ 100 * U(LadderSizes[j]) > 101 * globals.most_used_height}})

\* the 0-based ladder position the size of line i of page p matches, -1 for
\* none
LadderPosition(p, i) ==
    LET hits == {k \in DOMAIN HeadingLadder :
                    Abs(HeadingLadder[k] - SizeOf(p, i)) < U(1)}
    IN  IF hits = {} THEN -1
        ELSE (CHOOSE k \in hits : \A j \in hits : k <= j) - 1

\* line i of page p is typed by the title-page rule: it is on a page with a
\* line of the maximum height and is of that height, or at least a quarter
\* of the way from the dominant size to it
TitleTyped(p, i) ==
    /\ \E j \in DOMAIN pages[p].items :
           pages[p].items[j].kind = "LineItem"
           /\ 2 * Abs(SizeOf(p, j) - globals.max_height) < U(1)
    /\ 4 * SizeOf(p, i) >= 3 * globals.most_used_height + globals.max_height

HeadingTag(level) == <<"H1", "H2", "H3", "H4", "H5", "H6">>[level]

\* C24, as stated: a Paragraph line whose size matches position p of the
\* heading ladder, outside the title-page cases, receives the level
\* min(p + 2, 6): H2 at position 0, H3 at position 1, H6 from position 4 on.
LadderLevelCappedAtH6 ==
    [][pc = "DetectHeaders" =>
        \A p \in DOMAIN pages : \A i \in DOMAIN pages[p].items :
            IsParagraphLine(p, i) /\ LadderPosition(p, i) >= 0 /\ ~TitleTyped(p, i)
            => TagAfter(p, i) = HeadingTag(Min(LadderPosition(p, i) + 2, 6))]_vars

\* C24, what the code does: the positions 0 to 4 give H2 to H6; a line at
\* position 5 or beyond gets no level from its size and stays a Paragraph
\* (no line of these documents is bold or in capitals).
LadderLevelUpToH6 ==
    [][pc = "DetectHeaders" =>
        \A p \in DOMAIN pages : \A i \in DOMAIN pages[p].items :
            IsParagraphLine(p, i) /\ LadderPosition(p, i) >= 0 /\ ~TitleTyped(p, i)
            => TagAfter(p, i) =
                   IF LadderPosition(p, i) <= 4
                   THEN HeadingTag(LadderPosition(p, i) + 2)
                   ELSE "Paragraph"]_vars

\* a title page with the line of size 40, and a second page with the six
\* smaller sizes: 36 to 24 have become H3 to H6, 20 and 16 are paragraphs
LadderBeyondH6Witness ==
    /\ HeadersDetected
    /\ source.pages = <<LadderPage({1}), LadderPage(2..7)>>
    /\ [i \in 1..6 |-> pages[2].items[i].v.block_type.tag]
           = <<"H3", "H4", "H5", "H6", "Paragraph", "Paragraph">>
    /\ [i \in 1..6 |-> LineFontSize(pages[2].items[i].v)]
           = <<U(36), U(32), U(28), U(24), U(20), U(16)>>


----------------------------------------------------------------------------
(* ToMarkdown on pages of prose, code, bold lines, large lines and a line of
   three grave accents *)

MaxRenderLines == 3

\* the lines a page is made of: prose, an indented "def f():", a line in the
\* bold font, a line in size 24, and a line whose text is three grave accents
RenderLineKinds == {"Prose", "Def", "Bold", "Big", "Tick"}

\* line j of a page, 40 below the line before it
RenderFrag(text, x, j, font, size) ==
    TextItem(text, x, U(700) - (j - 1) * U(40), U(40), size, font, size)

RenderLineAt(kind, j) ==
    CASE kind = "Prose" -> RenderFrag(<<"a", "b", "c", "d">>, XLeft, j, F_Sans, U(11))
      [] kind = "Def" -> RenderFrag(Str_def, XIndented, j, F_Sans, U(11))
      [] kind = "Bold" -> RenderFrag(<<"a", "b", "c", "d">>, XLeft, j, F_SansBold, U(11))
      [] kind = "Big" -> RenderFrag(<<"T", "o", "p">>, XLeft, j, F_Sans, U(24))
      [] kind = "Tick" ->
             RenderFrag(<<Backtick, Backtick, Backtick>>, XLeft, j, F_Sans, U(11))

RenderPage(kinds) == TextPage([j \in DOMAIN kinds |-> RenderLineAt(kinds[j], j)])

RenderSources ==
    {[opens |-> TRUE, thread_opens |-> TRUE, pages |-> <<RenderPage(kinds)>>] :
        kinds \in SeqsUpTo(RenderLineKinds, MaxRenderLines) \ {<<>>}}

\* convert_file on one thread, CompactLines having returned
InitRender ==
    /\ OneFile
    /\ pc = "DetectCodeBlocks"
    /\ source \in RenderSources
    /\ num_threads = 1
    /\ ranges = Ranges(total_pages, ChunkSize(total_pages, num_threads))
    /\ chunk_pages = <<ExtractedPages(source)>>
    /\ next_idx = <<total_pages>>
    /\ globals \in calculate_global_stats(ExtractedPages(source))
    /\ pages = CompactLines(RemoveRepetitiveElements(ExtractedPages(source)), globals)
    /\ compacted = DOMAIN pages
    /\ stages_run = <<"CalculateGlobalStats", "RemoveRepetitiveElements", "CompactLines">>
    /\ final_markdown = <<>>

NextRender ==
    \/ RunDetectCodeBlocks
    \/ RunDetectTOC
    \/ RunDetectHeaders
    \/ RunToMarkdown

SpecRender == InitRender /\ [][NextRender]_vars


----------------------------------------------------------------------------
(* Properties of ToMarkdown, checked under SpecRender *)

\* the lines of a Markdown text, each without its line feed
RECURSIVE MarkdownLinesLoop(_, _, _)
MarkdownLinesLoop(md, lines, line) ==
    IF md = <<>> THEN IF line = <<>> THEN lines ELSE Append(lines, line)
    ELSE IF md[1] = "\n" THEN MarkdownLinesLoop(Tail(md), Append(lines, line), <<>>)
    ELSE MarkdownLinesLoop(Tail(md), lines, Append(line, md[1]))

MarkdownLines(md) == MarkdownLinesLoop(md, <<>>, <<>>)

FenceMarker == <<Backtick, Backtick, Backtick>>

\* the number of fence-marker lines of a Markdown text
MarkersIn(md) ==
    Cardinality({k \in DOMAIN MarkdownLines(md) : MarkdownLines(md)[k] = FenceMarker})

\* the Markdown ToMarkdown leaves on page p
Rendered(p) == pages'[p].items[1].v

\* the Markdown the loop has emitted when item i of page p has been rendered
EmittedThrough(p, i) ==
    RenderLoop(SubSeq(pages[p].items, 1, i), LoopStart, globals).markdown

\* item i of page p is emitted between an opening and a closing fence marker:
\* the page's Markdown starts with what has been emitted through item i, an
\* odd number of marker lines is in that part, and a marker line follows it
InsideFence(p, i) ==
    /\ starts_with(Rendered(p), EmittedThrough(p, i))
    /\ MarkersIn(EmittedThrough(p, i)) % 2 = 1
    /\ MarkersIn(Rendered(p)) > MarkersIn(EmittedThrough(p, i))

IsCodeLine(p, i) ==
    pages[p].items[i].kind = "LineItem" /\ pages[p].items[i].v.block_type = Code

\* every fragment of line i of page p is set in a font whose emphasis is
\* Bold or BoldItalic
FullyBold(p, i) ==
    /\ pages[p].items[i].v.items # <<>>
    /\ \A k \in DOMAIN pages[p].items[i].v.items :
           EmphasisOf(pages[p].items[i].v.items[k].font) \in {"Bold", "BoldItalic"}

\* no line of page p has the fence marker as its text
NoMarkerText(p) ==
    \A i \in DOMAIN pages[p].items :
        pages[p].items[i].kind = "LineItem" =>
            trim(LineText(pages[p].items[i].v)) # FenceMarker

\* C25, as stated: a Code line that is fully bold is not emitted between an
\* opening and a closing fence marker, and every Code line that is not fully
\* bold is.
BoldCodeLineIsCaption ==
    [][pc = "ToMarkdown" =>
        \A p \in DOMAIN pages : NoMarkerText(p) =>
            \A i \in DOMAIN pages[p].items : IsCodeLine(p, i) =>
                (InsideFence(p, i) <=> ~FullyBold(p, i))]_vars

\* C25, what the code does: no fragment carries an emphasis tag, the bold of
\* a font being in the fragment's text only, so no Code line with a fragment
\* counts as fully bold and every one of them is emitted inside a fence.
EveryCodeLineFenced ==
    [][pc = "ToMarkdown" =>
        \A p \in DOMAIN pages : NoMarkerText(p) =>
            \A i \in DOMAIN pages[p].items :
                IsCodeLine(p, i) /\ pages[p].items[i].v.items # <<>> =>
                    /\ \A k \in DOMAIN pages[p].items[i].v.items :
                           pages[p].items[i].v.items[k].format = NoFormat
                    /\ InsideFence(p, i)]_vars

\* "def f():" and two lines in the bold font: the bold lines are Code by the
\* italic rule and are rendered inside the fence of the first line
BoldCodeFencedWitness ==
    /\ pc = "combine"
    /\ source.pages = <<RenderPage(<<"Def", "Bold", "Bold">>)>>
    /\ EmphasisOf(F_SansBold) = "Bold"
    /\ MarkdownLines(pages[1].items[1].v) =
           <<FenceMarker,
             <<"\t", " ", " ">> \o Str_def,
             <<"\t", "a", "b", "c", "d">>,
             <<"\t", "a", "b", "c", "d">>,
             FenceMarker,
             <<>>>>


\* line i of page p is a heading, a TOC entry, a list item or a paragraph
IsProseLine(p, i) ==
    pages[p].items[i].kind = "LineItem" /\ pages[p].items[i].v.block_type # Code

\* the fences of page p are balanced: the page's Markdown has an even number
\* of fence-marker lines, so that every opening marker has its closing
\* marker; the markers alternate with the renderer's fence state, a marker
\* being emitted only when the state changes; and after a line that is not
\* Code has been emitted the fence is closed
FencesBalanced(p) ==
    /\ MarkersIn(Rendered(p)) % 2 = 0
    /\ \A i \in DOMAIN pages[p].items :
           /\ starts_with(Rendered(p), EmittedThrough(p, i))
           /\ RenderLoop(SubSeq(pages[p].items, 1, i), LoopStart, globals).in_code_block
                  <=> MarkersIn(EmittedThrough(p, i)) % 2 = 1
           /\ IsProseLine(p, i) => MarkersIn(EmittedThrough(p, i)) % 2 = 0

\* C26, as stated: after any sequence of lines the rendered page has an even
\* number of fence-marker lines, every opening marker is followed by a
\* closing marker, fences do not nest, and no heading, TOC, list or paragraph
\* line is emitted while a fence is open.
FencesBalancedOnEveryPage ==
    [][pc = "ToMarkdown" => \A p \in DOMAIN pages : FencesBalanced(p)]_vars

\* line i of page p is rendered as a fence-marker line of its own: a line
\* that is no heading, TOC entry, list item or Code and whose text is the
\* marker
RendersAsMarker(p, i) ==
    /\ pages[p].items[i].kind = "LineItem"
    /\ RenderLine(pages[p].items[i].v) = FenceMarker \o <<"\n">>

\* C26, amended: the same on every page none of whose lines is rendered as a
\* fence-marker line of its own.
FencesBalancedWithoutMarkerText ==
    [][pc = "ToMarkdown" =>
        \A p \in DOMAIN pages :
            (\A i \in DOMAIN pages[p].items : ~RendersAsMarker(p, i))
            => FencesBalanced(p)]_vars

\* "def f():", a heading and "def f():" again: two fences, the first closed
\* before the heading, the second at the end of the page
TwoFencesWitness ==
    /\ pc = "combine"
    /\ source.pages = <<RenderPage(<<"Def", "Big", "Def">>)>>
    /\ LET lines == MarkdownLines(pages[1].items[1].v)
       IN  /\ MarkersIn(pages[1].items[1].v) = 4
           /\ lines[1] = FenceMarker
           /\ lines[2] = <<"\t">> \o Str_def
           /\ \E k \in DOMAIN lines : lines[k] = <<"#", " ", "T", "o", "p">>
           /\ lines[Len(lines) - 1] = FenceMarker


----------------------------------------------------------------------------
(* CalculateGlobalStats on pages whose sizes, fonts and pitches can tie *)

MaxTieFrags == 3

\* the fragments a page is made of: three or six letters in Sans or Serif,
\* size 11 or 12, 12 or 14 below the fragment before
TieKinds ==
    {[text |-> <<"a", "b", "c">>, font |-> f, size |-> U(s), drop |-> U(d)] :
        f \in {F_Sans, F_Serif}, s \in {11, 12}, d \in {12, 14}}
    \cup {[text |-> <<"a", "b", "c", "d", "e", "f">>, font |-> F_Sans,
           size |-> U(11), drop |-> U(12)]}

TiePage(kinds) ==
    TextPage([j \in DOMAIN kinds |->
        TextItem(kinds[j].text, XLeft,
                 U(700) - SumSeq([i \in 1..j |-> kinds[i].drop]), U(40),
                 kinds[j].size, kinds[j].font, kinds[j].size)])

TieSources ==
    {[opens |-> TRUE, thread_opens |-> TRUE, pages |-> <<TiePage(kinds)>>] :
        kinds \in SeqsUpTo(TieKinds, MaxTieFrags) \ {<<>>}}

\* convert_file on one thread, about to call CalculateGlobalStats
InitTie ==
    /\ OneFile
    /\ pc = "CalculateGlobalStats"
    /\ source \in TieSources
    /\ num_threads = 1
    /\ ranges = Ranges(total_pages, ChunkSize(total_pages, num_threads))
    /\ pages = ExtractedPages(source)
    /\ chunk_pages = <<pages>>
    /\ next_idx = <<total_pages>>
    /\ globals = DefaultGlobals
    /\ compacted = {}
    /\ stages_run = <<>>
    /\ final_markdown = <<>>

NextTie == RunCalculateGlobalStats

SpecTie == InitTie /\ [][NextTie]_vars

----------------------------------------------------------------------------
(* Properties of the Typography Profiler's choices, checked under SpecTie *)

\* C27, as stated: a run of the profiler on the pages yields the GlobalStats
\* every run on these pages yields, ties for the highest vote included.
ProfilerDeterministic ==
    [][pc = "CalculateGlobalStats" =>
        \A g \in calculate_global_stats(pages) : globals' = g]_vars

\* the votes of a font size and of a font: the letters of their fragments
\* (every fragment of these pages has three letters or more, no styled font)
SizeVotes(size) ==
    SumSeq([i \in DOMAIN PageFragments |->
               IF PageFragments[i].font_size = size
               THEN Len(PageFragments[i].text) ELSE 0])

FontVotes(font) ==
    SumSeq([i \in DOMAIN PageFragments |->
               IF PageFragments[i].font = font
               THEN Len(PageFragments[i].text) ELSE 0])

\* the votes of a pitch delta for body size h: the pairs of neighbouring
\* fragments of size h that far apart
PitchVotes(h, d) ==
    Cardinality({i \in DOMAIN PageFragments :
        /\ i + 1 \in DOMAIN PageFragments
        /\ PageFragments[i].font_size = h /\ PageFragments[i + 1].font_size = h
        /\ PageFragments[i].y - PageFragments[i + 1].y = d})

TopSizes ==
    {s \in {U(11), U(12)} :
        SizeVotes(s) > 0 /\ \A r \in {U(11), U(12)} : SizeVotes(r) <= SizeVotes(s)}

TopFonts ==
    {f \in {F_Sans, F_Serif} :
        FontVotes(f) > 0 /\ \A g \in {F_Sans, F_Serif} : FontVotes(g) <= FontVotes(f)}

TopPitches(h) ==
    IF \A d \in {U(12), U(14)} : PitchVotes(h, d) = 0 THEN {U(12)}
    ELSE {d \in {U(12), U(14)} :
             \A e \in {U(12), U(14)} : PitchVotes(h, e) <= PitchVotes(h, d)}

\* no two sizes, fonts or pitch deltas tie for the highest vote
NoTie ==
    /\ Cardinality(TopSizes) = 1
    /\ Cardinality(TopFonts) = 1
    /\ \A h \in TopSizes : Cardinality(TopPitches(h)) = 1

\* C27, what the code does: the dominant size, font and pitch are among
\* those with the highest vote, and without a tie every run yields the same
\* GlobalStats.  With a tie the choice follows the iteration order of a
\* HashMap and is not fixed.
ProfilerDeterministicWithoutTie ==
    [][pc = "CalculateGlobalStats" =>
        /\ globals'.most_used_height \in TopSizes
        /\ globals'.most_used_font \in TopFonts
        /\ globals'.most_used_distance \in TopPitches(globals'.most_used_height)
        /\ NoTie => \A g \in calculate_global_stats(pages) : globals' = g]_vars

\* "abc" in size 11 and "abc" in size 12, both in Sans: the sizes tie with
\* three votes each and this run has taken 12
TieBrokenWitness ==
    /\ Profiled
    /\ Len(PageFragments) = 2
    /\ PageFragments[1].font_size = U(11) /\ PageFragments[2].font_size = U(12)
    /\ PageFragments[1].font = F_Sans /\ PageFragments[2].font = F_Sans
    /\ SizeVotes(U(11)) = SizeVotes(U(12))
    /\ globals.most_used_height = U(12)


----------------------------------------------------------------------------
(* convert_file: the page ranges of documents of up to 65535 pages *)

MaxRangeThreads == 8

\* page counts: small ones, and those around half and at the end of the
\* 16-bit range
RangeTotals == (1..8) \cup {32767, 32768, 40000} \cup (65528..65535)

\* convert_file has read the page count and is about to build the ranges
InitRanges ==
    /\ OneFile
    /\ pc = "ranges"
    /\ \E n \in RangeTotals :
           source = [opens |-> TRUE, thread_opens |-> TRUE, pages |-> <<>>, len |-> n]
    /\ num_threads \in 1..MaxRangeThreads
    /\ ranges = <<>>
    /\ pages = <<>>
    /\ chunk_pages = <<>>
    /\ next_idx = <<>>
    /\ globals = DefaultGlobals
    /\ compacted = {}
    /\ stages_run = <<>>
    /\ final_markdown = <<>>

NextRanges == MakeRanges

SpecRanges == InitRanges /\ [][NextRanges]_vars

----------------------------------------------------------------------------
(* Properties of the page ranges, checked under SpecRanges *)

\* the ranges rs are a partition of the page indices 0..total-1: each has
\* start < end <= total, no two share a page, and their lengths add up to
\* total
PartitionOf(rs, total) ==
    /\ \A k \in DOMAIN rs : 0 <= rs[k][1] /\ rs[k][1] < rs[k][2] /\ rs[k][2] <= total
    /\ \A j \in DOMAIN rs : \A k \in DOMAIN rs :
           j # k => rs[j][2] <= rs[k][1] \/ rs[k][2] <= rs[j][1]
    /\ SumSeq([k \in DOMAIN rs |-> rs[k][2] - rs[k][1]]) = total

\* the starts the step_by yields
RangeStartsOf(total, chunk_size) ==
    {(k - 1) * chunk_size : k \in 1..((total + chunk_size - 1) \div chunk_size)}

\* no start + chunk_size exceeds the 16-bit range
SumsFit(total, chunk_size) ==
    \A start \in RangeStartsOf(total, chunk_size) : start + chunk_size <= 65535

\* C28, as stated: for every page count from 1 to 65535 and every worker
\* count from 1 on, start + chunk_size and end - start stay within 16 bits
\* and the ranges are a partition of 0..total_pages-1.
RangesPartitionEveryCount ==
    [][pc = "ranges" =>
        /\ SumsFit(total_pages, ChunkSize(total_pages, num_threads))
        /\ pc' = "extract"
        /\ PartitionOf(ranges', total_pages)]_vars

\* C28, what the code does: the same whenever the page count rounded up to
\* a multiple of the chunk size is at most 65535.  Beyond that the sum
\* start + chunk_size of the last range leaves the 16-bit range: the run
\* panics, or the sum wraps, the last range gets an end below its start and
\* its pages are extracted by no worker.
RangesPartitionUnlessSumWraps ==
    [][pc = "ranges" =>
        LET chunk_size == ChunkSize(total_pages, num_threads)
            last == ranges'[Len(ranges')]
        IN  IF SumsFit(total_pages, chunk_size)
            THEN pc' = "extract" /\ PartitionOf(ranges', total_pages)
            ELSE \/ pc' = "panicked"
                 \/ /\ pc' = "extract"
                    /\ last[2] < last[1]
                    /\ last[2] = last[1] + chunk_size - 65536
                    /\ PartitionOf(SubSeq(ranges', 1, Len(ranges') - 1), last[1])]_vars

\* 65535 pages on 2 threads: chunks of 32768, and the second range runs from
\* 32768 to 0
WrappedRangeWitness ==
    /\ pc = "extract"
    /\ total_pages = 65535
    /\ num_threads = 2
    /\ ranges = <<<<0, 32768>>, <<32768, 0>>>>


----------------------------------------------------------------------------
(* CompactLines on pages of fragments in any order *)

MaxTextFrags == 3

\* the fragments a page is made of, each with a text of its own: on the
\* upper line at x = 72, 100 (glued to the one at 72), 110 and 200, one of
\* them in the bold font with a space at its end; on the lower line at 72
\* and, in the bold font with a space at its start, at 100; and one without
\* letters
TextKinds ==
    {[text |-> <<"a", "b", "c">>, x |-> U(72), y |-> U(700), font |-> F_Sans],
     [text |-> <<"d", "e", "f">>, x |-> U(100), y |-> U(700), font |-> F_Sans],
     [text |-> <<"g", "h", "i">>, x |-> U(110), y |-> U(700), font |-> F_Sans],
     [text |-> <<"j", "k", "l", " ">>, x |-> U(200), y |-> U(700), font |-> F_SansBold],
     [text |-> <<"m", "n", "o">>, x |-> U(72), y |-> U(686), font |-> F_Sans],
     [text |-> <<" ", "p", "q", "r">>, x |-> U(100), y |-> U(686), font |-> F_SansBold],
     [text |-> <<"(", "1", ")">>, x |-> U(130), y |-> U(686), font |-> F_Sans]}

TextFragPage(kinds) ==
    TextPage([j \in DOMAIN kinds |->
        TextItem(kinds[j].text, kinds[j].x, kinds[j].y, U(25), U(11),
                 kinds[j].font, U(11))])

\* one-page documents, the page without fragments among them
TextSources ==
    {[opens |-> TRUE, thread_opens |-> TRUE, pages |-> <<TextFragPage(kinds)>>] :
        kinds \in SeqsUpTo(TextKinds, MaxTextFrags)}

\* convert_file on one thread, about to call CompactLines
InitText ==
    /\ OneFile
    /\ pc = "CompactLines"
    /\ source \in TextSources
    /\ num_threads = 1
    /\ ranges = Ranges(total_pages, ChunkSize(total_pages, num_threads))
    /\ pages = ExtractedPages(source)
    /\ chunk_pages = <<pages>>
    /\ next_idx = <<total_pages>>
    /\ globals \in calculate_global_stats(pages)
    /\ compacted = {}
    /\ stages_run = <<"CalculateGlobalStats", "RemoveRepetitiveElements">>
    /\ final_markdown = <<>>

NextText ==
    \/ StartCompactLines
    \/ \E p \in DOMAIN pages : CompactLinesPage(p)
    \/ FinishCompactLines

SpecText == InitText /\ [][NextText]_vars

----------------------------------------------------------------------------
(* Properties of what CompactLines keeps, checked under SpecText *)

\* the text proper of a fragment: its characters without the spaces and the
\* emphasis markers the compactor may add or take away
TextProper(text) == SelectSeq(text, LAMBDA c : c \notin {" ", "*", "_"})

\* the fragments CompactLines is given on page p
InputFragments(p) == PageTextItems(pages[p])

\* the input positions idxs ordered by left x, the earlier first at equal x
RECURSIVE ByLeftX(_, _)
ByLeftX(p, idxs) ==
    IF idxs = {} THEN <<>>
    ELSE LET f == InputFragments(p)
             m == CHOOSE i \in idxs :
                      \A j \in idxs : f[i].x < f[j].x \/ (f[i].x = f[j].x /\ i <= j)
         IN  <<m>> \o ByLeftX(p, idxs \ {m})

\* the text proper of the input fragments idxs, read from left to right
TextOfFragments(p, idxs) ==
    Flatten([k \in 1..Cardinality(idxs) |->
                TextProper(InputFragments(p)[ByLeftX(p, idxs)[k]].text)])

\* the text proper of output line n of page p, fragment by fragment
TextOfLine(p, n) == TextProper(LineText(pages'[p].items[n].v))

\* the input of page p cut after the positions in cuts: the n-th run
RunOf(p, cuts, n) ==
    LET bounds == SortedSeq(cuts \cup {0, Len(InputFragments(p))})
    IN  (bounds[n] + 1)..bounds[n + 1]

\* page p keeps its text: the input falls into consecutive runs, one for
\* each output line and in the order of the lines, and every line holds the
\* text of the fragments of its run, each once, and nothing else
KeepsText(p) ==
    LET m == Len(InputFragments(p))
    IN  IF m = 0 THEN pages'[p].items = <<>>
        ELSE /\ Len(pages'[p].items) >= 1
             /\ \A n \in DOMAIN pages'[p].items : pages'[p].items[n].kind = "LineItem"
             /\ \E cuts \in SUBSET (1..(m - 1)) :
                    /\ Cardinality(cuts) + 1 = Len(pages'[p].items)
                    /\ \A n \in DOMAIN pages'[p].items :
                           TextOfLine(p, n) = TextOfFragments(p, RunOf(p, cuts, n))

\* C29: on every page each input fragment contributes its text to exactly
\* one output line, a page with a fragment yields a line, and the lines are
\* in the order in which their first fragments came in the input.
CompactLinesKeepsText ==
    [][pc = "CompactLines.for_each" =>
        \A p \in compacted' \ compacted : KeepsText(p)]_vars

\* the input "def" (x = 100), "abc" (x = 72), "mno" (lower line): two lines,
\* the first with "abc" and "def" glued in the order of their x, the second
\* with "mno"
TextKeptWitness ==
    /\ pc = "DetectCodeBlocks"
    /\ [i \in DOMAIN Before[1].items |-> Before[1].items[i].v.text]
           = <<<<"d", "e", "f">>, <<"a", "b", "c">>, <<"m", "n", "o">>>>
    /\ Len(pages[1].items) = 2
    /\ LineText(pages[1].items[1].v) = <<"a", "b", "c", "d", "e", "f">>
    /\ LineText(pages[1].items[2].v) = <<"m", "n", "o">>

====
